---- MODULE Spec2Model ----
(***************************************************************************)
(* A model of the geometry core of gcode-text: Spline flattening, the      *)
(* Matrix builders, the OffsetDraw stage and the Font string operations.   *)
(*                                                                         *)
(* Arithmetic.  The program computes in Python floats.  The model computes *)
(* in integers: spline coordinates and tolerances are fixed-point numbers  *)
(* counted in units of 1/Grid, everything else is an integer.  Grid is     *)
(* chosen so that every halving the model performs is exact, and all the   *)
(* values it handles are exactly representable in binary64, so on the      *)
(* modelled inputs the integer results are the float results.  Rounding of *)
(* inexact float operations is outside the model.                          *)
(***************************************************************************)
EXTENDS Integers, Sequences, FiniteSets, TLC

VARIABLES
    \* Spline.decompose, run as an explicit recursion
    spline,     \* the Spline decompose was called on
    tolerance,  \* the tolerance argument, in units of 1/Grid
    stack,      \* pending recursive calls, innermost first: [s, depth]
    ret,        \* the points returned so far, in order
    pc,         \* "idle" | "run" | "done" | "RecursionError"
    prev,       \* the result of the previous decompose of the same spline
    \* Matrix builders, as called by `matrix = matrix.scale(...)`
    matrix,     \* the caller's variable: the Matrix the last builder returned
    mself,      \* the Matrix the last builder was called on, after the call
    mbefore,    \* the coefficients that Matrix had before the call
    mcall,      \* the last builder call: [op, a, b]
    mops,       \* the number of builder calls so far
    \* an OffsetDraw in front of a recording sink
    offsetdraw, \* the OffsetDraw: [offset_x, offset_y, last_x, last_y]
    chain,      \* its chain: [last_x, last_y, received], received being the
                \* calls the last operation on the OffsetDraw forwarded
    issued,     \* the last call made on the OffsetDraw, with the steps
                \* summed up to then: [call, dx, dy]
    stepped,    \* the steps so far: [n, dx, dy], dx and dy their sums
    \* a font being loaded from its SVG form by both implementations
    font,       \* gcode_font.Font: [glyphs], glyphs a map ucs4 -> Glyph
    tfont,      \* gcode_text.Font: [charmap, outlines, ascent, descent]
    loaded,     \* parse_svg_font has returned the font
    file,       \* the elements of the font file read so far, in order
    textop,     \* the last operation on the loaded font, with its results
    \* text_into_rect
    intorect,   \* the last call of text_into_rect, with what it did
    \* main of gcode-text.py
    main,       \* the run: [pc, template, device_file, font_file, values,
                \* device, output, n, last, raised], output being the kinds
                \* of the lines written so far and last the call of
                \* text_into_rect in the last turn of the loop
    \* main of gcode-svg.py
    svg,        \* the run: [pc, json, params, values, device, paths, printed,
                \* output, done]
    \* a chain of Draw stages, as text_path and path_to_gcode build them
    pipe,       \* [pc, made, stages, n, call, before, trace, raised, interp,
                \* p0]: made says what the chain was made for and with,
                \* stages the objects from the one called to the sink, call
                \* the last call on the first of them, before the stages and
                \* p0 the interpreter's (x1, y1) as that call found them,
                \* trace the calls it made each stage receive; interp is
                \* Glyph.path: [on, x1, y1, g, ops, instr], g the glyphs
                \* entered, ops the opcodes decoded in this one and instr
                \* the last of them with its operands
    \* the loop of main of gcode-text.py over its two generators
    loop        \* [pc, values, rect, line, rect_gen, line_gen]

splineVars == <<spline, tolerance, stack, ret, pc, prev>>
matrixVars == <<matrix, mself, mbefore, mcall, mops>>
offsetVars == <<offsetdraw, chain, issued, stepped>>
fontVars   == <<font, tfont, loaded, file, textop>>

rectVars   == <<intorect>>
mainVars   == <<main>>
svgVars    == <<svg>>
pipeVars   == <<pipe>>
loopVars   == <<loop>>

vars == <<splineVars, matrixVars, offsetVars, fontVars, rectVars, mainVars, svgVars,
          pipeVars, loopVars>>

(***************************************************************************)
(* Bounds of the model                                                     *)
(***************************************************************************)
\* control points are drawn from (0..MaxCoord) x (0..MaxCoord)
MaxCoord == 1
\* the depth of recursion at which Python raises RecursionError
\* (sys.getrecursionlimit(), 1000 by default), scaled down
RecursionLimit == 3

\* builder arguments are drawn from -MaxArg .. MaxArg
MaxArg == 1
\* the number of builder calls chained on one Matrix
MaxOps == 2
\* the number of OffsetDraw.step calls in one run
MaxSteps == 2
\* the number of glyph elements of the font file, after its missing-glyph
MaxGlyphs == 2
\* the length of the strings drawn and measured
MaxLen == 2
\* the number of instructions of a glyph program given to the interpreter
MaxProgram == 2
\* rectangles are up to MaxRect wide and high
MaxRect == 3
\* values.border is 0 or MaxBorder
MaxBorder == 1
\* the length of the strings put into rectangles
MaxText == 1
MaxItems == 2

\* the fixed-point unit: one de_casteljau level needs three exact halvings
Grid == 8 ^ RecursionLimit

(***************************************************************************)
(* Point                                                                   *)
(***************************************************************************)
Point(x, y) == [x |-> x, y |-> y]

\* mutant: the division by two is lost, so the "midpoint" is the far end
lerp_half_no_halving(p, o) == Point(p.x + (o.x - p.x), p.y + (o.y - p.y))

lerp_half(p, o) == Point(p.x + (o.x - p.x) \div 2, p.y + (o.y - p.y) \div 2)

(***************************************************************************)
(* Spline                                                                  *)
(***************************************************************************)
Spline(a, b, c, d) == [a |-> a, b |-> b, c |-> c, d |-> d]

de_casteljau(s) ==
    LET ab    == lerp_half(s.a, s.b)
        bc    == lerp_half(s.b, s.c)
        cd    == lerp_half(s.c, s.d)
        abbc  == lerp_half(ab, bc)
        bccd  == lerp_half(bc, cd)
        final == lerp_half(abbc, bccd)
    IN  <<Spline(s.a, ab, abbc, final), Spline(final, bccd, cd, s.d)>>

\* F(v), with v evaluated once, however often F uses it
Let(v, F(_)) == CHOOSE y \in {F(x) : x \in {v}} : TRUE

Max(m, n) == IF m < n THEN n ELSE m
Min(m, n) == IF m < n THEN m ELSE n

\* mutant: the smaller of the two squares is kept on each axis
error_squared_least(s) ==
    LET ux == 3 * s.b.x - 2 * s.a.x - s.d.x
        uy == 3 * s.b.y - 2 * s.a.y - s.d.y
        vx == 3 * s.c.x - 2 * s.d.x - s.a.x
        vy == 3 * s.c.y - 2 * s.d.y - s.a.y
    IN  Min(ux * ux, vx * vx) + Min(uy * uy, vy * vy)

error_squared(s) ==
    LET ux == 3 * s.b.x - 2 * s.a.x - s.d.x
        uy == 3 * s.b.y - 2 * s.a.y - s.d.y
        vx == 3 * s.c.x - 2 * s.d.x - s.a.x
        vy == 3 * s.c.y - 2 * s.d.y - s.a.y
    IN  Max(ux * ux, vx * vx) + Max(uy * uy, vy * vy)

\* mutant: the tolerance is applied as its reciprocal (a resolution)
flat_enough_reciprocal(s, tol) ==
    /\ tol # 0
    /\ error_squared(s) <= 16 * ((Grid * Grid) \div tol) * ((Grid * Grid) \div tol)

\* the test on line 400: the spline is flat enough to be drawn as a line
flat_enough(s, tol) == error_squared(s) <= 16 * tol * tol

(***************************************************************************)
(* Spline.decompose as a machine.  A recursive call is a frame [s, depth]; *)
(* s1.decompose(tol) + s2.decompose(tol) evaluates s1 before s2 and        *)
(* concatenates, so the frames of s1 go on top of the frame of s2 and      *)
(* every leaf appends its d to ret.                                        *)
(***************************************************************************)
Coords == 0 .. MaxCoord
Points == {Point(x * Grid, y * Grid) : x \in Coords, y \in Coords}
Splines == {Spline(a, b, c, d) : a \in Points, b \in Points, c \in Points, d \in Points}
\* tolerances 0, 1/4 and 1
Tolerances == {0, Grid \div 4, Grid}

NoResult == [tolerance |-> -1, ret |-> <<>>]

SplineInit(S) ==
    /\ spline \in S
    /\ tolerance = 0
    /\ stack = <<>>
    /\ ret = <<>>
    /\ pc = "idle"
    /\ prev = NoResult

\* s.decompose(tol) is called
Call(tol) ==
    /\ pc = "idle"
    /\ tolerance' = tol
    /\ stack' = <<[s |-> spline, depth |-> 0]>>
    /\ ret' = <<>>
    /\ pc' = "run"
    /\ UNCHANGED <<spline, prev>>
    /\ UNCHANGED <<matrixVars, offsetVars, fontVars, rectVars, mainVars, svgVars, pipeVars, loopVars>>

\* line 401: return (self.d,)
Leaf ==
    /\ pc = "run"
    /\ stack # <<>>
    /\ flat_enough(Head(stack).s, tolerance)
    /\ ret' = Append(ret, Head(stack).s.d)
    /\ stack' = Tail(stack)
    /\ pc' = IF Tail(stack) = <<>> THEN "done" ELSE "run"
    /\ UNCHANGED <<spline, tolerance, prev>>
    /\ UNCHANGED <<matrixVars, offsetVars, fontVars, rectVars, mainVars, svgVars, pipeVars, loopVars>>

\* lines 402-403: split and recurse into both halves
Split ==
    /\ pc = "run"
    /\ stack # <<>>
    /\ ~flat_enough(Head(stack).s, tolerance)
    /\ Head(stack).depth < RecursionLimit
    /\ LET halves == de_casteljau(Head(stack).s)
           k      == Head(stack).depth + 1
       IN  stack' = <<[s |-> halves[1], depth |-> k],
                      [s |-> halves[2], depth |-> k]>> \o Tail(stack)
    /\ UNCHANGED <<spline, tolerance, ret, pc, prev>>
    /\ UNCHANGED <<matrixVars, offsetVars, fontVars, rectVars, mainVars, svgVars, pipeVars, loopVars>>

\* the recursion is deeper than the interpreter allows
Overflow ==
    /\ pc = "run"
    /\ stack # <<>>
    /\ ~flat_enough(Head(stack).s, tolerance)
    /\ Head(stack).depth >= RecursionLimit
    /\ pc' = "RecursionError"
    /\ UNCHANGED <<spline, tolerance, stack, ret, prev>>
    /\ UNCHANGED <<matrixVars, offsetVars, fontVars, rectVars, mainVars, svgVars, pipeVars, loopVars>>

\* the caller keeps the result and decomposes the same spline again with a
\* quarter of the tolerance
Retighten ==
    /\ pc = "done"
    /\ prev = NoResult
    /\ tolerance % 4 = 0
    /\ prev' = [tolerance |-> tolerance, ret |-> ret]
    /\ tolerance' = tolerance \div 4
    /\ stack' = <<[s |-> spline, depth |-> 0]>>
    /\ ret' = <<>>
    /\ pc' = "run"
    /\ UNCHANGED spline
    /\ UNCHANGED <<matrixVars, offsetVars, fontVars, rectVars, mainVars, svgVars, pipeVars, loopVars>>

NextSpline ==
    \/ \E tol \in Tolerances : Call(tol)
    \/ Leaf
    \/ Split
    \/ Overflow
    \/ Retighten

(***************************************************************************)
(* Matrix.  rotate(a) takes its angle in quarter turns, for which the      *)
(* cosine and the sine are integers.                                       *)
(***************************************************************************)
Matrix(xx, xy, x0, yx, yy, y0) ==
    [xx |-> xx, xy |-> xy, x0 |-> x0, yx |-> yx, yy |-> yy, y0 |-> y0]

\* Matrix(): the defaults of __init__
Identity == Matrix(1, 0, 0, 0, 1, 0)

\* mutant: the product forgets the right operand's own translation
mul_drops_translation(self, o) ==
    Matrix(self.xx * o.xx + self.yx * o.xy,
           self.xy * o.xx + self.yy * o.xy,
           self.x0 * o.xx + self.y0 * o.xy,
           self.xx * o.yx + self.yx * o.yy,
           self.xy * o.yx + self.yy * o.yy,
           self.x0 * o.yx + self.y0 * o.yy)

\* Matrix.__mul__
mul(self, o) ==
    Matrix(self.xx * o.xx + self.yx * o.xy,
           self.xy * o.xx + self.yy * o.xy,
           self.x0 * o.xx + self.y0 * o.xy + o.x0,
           self.xx * o.yx + self.yx * o.yy,
           self.xy * o.yx + self.yy * o.yy,
           self.x0 * o.yx + self.y0 * o.yy + o.y0)

cos(q) == CASE q = 0 -> 1 [] q = 1 -> 0 [] q = 2 -> -1 [] q = 3 -> 0
sin(q) == CASE q = 0 -> 0 [] q = 1 -> 1 [] q = 2 -> 0 [] q = 3 -> -1

\* the elementary matrices the builders construct
translation(tx, ty) == Matrix(1, 0, tx, 0, 1, ty)
scaling(sx, sy)     == Matrix(sx, 0, 0, 0, sy, 0)
rotation(q)         == Matrix(cos(q), -sin(q), 0, sin(q), cos(q), 0)
sheering(sx, sy)    == Matrix(1, sy, 0, sx, 1, 0)

\* A builder's effect: the Matrix it returns and the Matrix it was called
\* on as the call leaves it.  No builder assigns to a field of self.
translate(self, tx, ty) == [ret |-> mul(translation(tx, ty), self), self |-> self]
scale(self, sx, sy)     == [ret |-> mul(scaling(sx, sy), self), self |-> self]
rotate(self, q)         == [ret |-> mul(rotation(q), self), self |-> self]
sheer(self, sx, sy)     == [ret |-> mul(sheering(sx, sy), self), self |-> self]

\* Matrix.point
point(self, p) ==
    Point(self.xx * p.x + self.yx * p.y + self.x0,
          self.xy * p.x + self.yy * p.y + self.y0)

\* Matrix.distance
distance(self, p) ==
    Point(self.xx * p.x + self.yx * p.y, self.xy * p.x + self.yy * p.y)

NoCall == [op |-> "none", a |-> 0, b |-> 0]

MatrixInit ==
    /\ matrix = Identity
    /\ mself = Identity
    /\ mbefore = Identity
    /\ mcall = NoCall
    /\ mops = 0

Args == -MaxArg .. MaxArg
QuarterTurns == 0 .. 3

\* matrix = matrix.<op>(a, b)
Built(effect, call) ==
    /\ mops < MaxOps
    /\ mbefore' = matrix
    /\ mself' = effect.self
    /\ matrix' = effect.ret
    /\ mcall' = call
    /\ mops' = mops + 1
    /\ UNCHANGED <<splineVars, offsetVars, fontVars, rectVars, mainVars, svgVars, pipeVars, loopVars>>

Translate(tx, ty) ==
    Built(translate(matrix, tx, ty), [op |-> "translate", a |-> tx, b |-> ty])

Scale(sx, sy) ==
    Built(scale(matrix, sx, sy), [op |-> "scale", a |-> sx, b |-> sy])

Rotate(q) ==
    Built(rotate(matrix, q), [op |-> "rotate", a |-> q, b |-> 0])

Sheer(sx, sy) ==
    Built(sheer(matrix, sx, sy), [op |-> "sheer", a |-> sx, b |-> sy])

NextMatrix ==
    \/ \E tx \in Args, ty \in Args : Translate(tx, ty)
    \/ \E sx \in Args, sy \in Args : Scale(sx, sy)
    \/ \E q \in QuarterTurns : Rotate(q)
    \/ \E sx \in Args, sy \in Args : Sheer(sx, sy)

(***************************************************************************)
(* Draw and OffsetDraw.  A call is [op, a], a being its coordinates in     *)
(* the order of the method's parameters.  A method's effect is the object  *)
(* as the call leaves it and the calls it made on its chain, in order.     *)
(***************************************************************************)
MoveCall(x, y)  == [op |-> "move", a |-> <<x, y>>]
DrawCall(x, y)  == [op |-> "draw", a |-> <<x, y>>]
CurveCall(x1, y1, x2, y2, x3, y3) == [op |-> "curve", a |-> <<x1, y1, x2, y2, x3, y3>>]

NoDrawCall == [op |-> "none", a |-> <<>>]

\* an attribute no __init__ has assigned yet
Unset == "unset"

\* Draw.__init__
Draw_init == [last_x |-> 0, last_y |-> 0]

\* mutant: the first pair of the call becomes the cursor
Draw_call_first_pair(self, call) == [self EXCEPT !.last_x = call.a[1], !.last_y = call.a[2]]

\* Draw.move, Draw.draw and Draw.curve: the end point becomes the cursor
Draw_call(self, call) ==
    [self EXCEPT !.last_x = call.a[Len(call.a) - 1], !.last_y = call.a[Len(call.a)]]

\* OffsetDraw.__init__, which does not run Draw.__init__
OffsetDraw_init ==
    [offset_x |-> 0, offset_y |-> 0, last_x |-> Unset, last_y |-> Unset]

\* mutant: the step multiplies the offset
OffsetDraw_step_product(self, offset_x, offset_y) ==
    [self EXCEPT !.offset_x = @ * offset_x]

\* OffsetDraw.step: only offset_x is advanced
OffsetDraw_step(self, offset_x, offset_y) ==
    [self EXCEPT !.offset_x = @ + offset_x]

OffsetDraw_move(self, x, y) ==
    [self  |-> Draw_call(self, MoveCall(x, y)),
     chain |-> <<MoveCall(x + self.offset_x, y + self.offset_y)>>]

OffsetDraw_draw(self, x, y) ==
    [self  |-> Draw_call(self, DrawCall(x, y)),
     chain |-> <<DrawCall(x + self.offset_x, y + self.offset_y)>>]

OffsetDraw_curve(self, x1, y1, x2, y2, x3, y3) ==
    [self  |-> Draw_call(self, CurveCall(x1, y1, x2, y2, x3, y3)),
     chain |-> <<CurveCall(x1 + self.offset_x, y1 + self.offset_y,
                           x2 + self.offset_x, y2 + self.offset_y,
                           x3 + self.offset_x, y3 + self.offset_y)>>]

RECURSIVE Draw_calls(_, _)
\* a Draw after the calls cs, made in order
Draw_calls(self, cs) ==
    IF cs = <<>> THEN self ELSE Draw_calls(Draw_call(self, Head(cs)), Tail(cs))

OffsetInit ==
    /\ offsetdraw = OffsetDraw_init
    /\ chain = [last_x |-> 0, last_y |-> 0, received |-> <<>>]
    /\ issued = [call |-> NoDrawCall, dx |-> 0, dy |-> 0]
    /\ stepped = [n |-> 0, dx |-> 0, dy |-> 0]

StepArgs == 0 .. MaxArg

\* glyph_calls.step(dx, dy)
Step(dx, dy) ==
    /\ stepped.n < MaxSteps
    /\ offsetdraw' = OffsetDraw_step(offsetdraw, dx, dy)
    /\ stepped' = [n |-> stepped.n + 1, dx |-> stepped.dx + dx, dy |-> stepped.dy + dy]
    /\ UNCHANGED <<chain, issued>>
    /\ UNCHANGED <<splineVars, matrixVars, fontVars, rectVars, mainVars, svgVars, pipeVars, loopVars>>

\* a move, draw or curve on the OffsetDraw
Called(call, effect) ==
    /\ offsetdraw' = effect.self
    /\ LET sink == Draw_calls([last_x |-> chain.last_x, last_y |-> chain.last_y],
                              effect.chain)
       IN  chain' = [last_x |-> sink.last_x, last_y |-> sink.last_y,
                     received |-> effect.chain]
    /\ issued' = [call |-> call, dx |-> stepped.dx, dy |-> stepped.dy]
    /\ UNCHANGED stepped
    /\ UNCHANGED <<splineVars, matrixVars, fontVars, rectVars, mainVars, svgVars, pipeVars, loopVars>>

OffsetMove(x, y) == Called(MoveCall(x, y), OffsetDraw_move(offsetdraw, x, y))

OffsetDrawTo(x, y) == Called(DrawCall(x, y), OffsetDraw_draw(offsetdraw, x, y))

OffsetCurve(x1, y1, x2, y2, x3, y3) ==
    Called(CurveCall(x1, y1, x2, y2, x3, y3),
           OffsetDraw_curve(offsetdraw, x1, y1, x2, y2, x3, y3))

NextOffset ==
    \/ \E dx \in StepArgs, dy \in StepArgs : Step(dx, dy)
    \/ \E x \in Coords, y \in Coords : OffsetMove(x, y)
    \/ \E x \in Coords, y \in Coords : OffsetDrawTo(x, y)
    \/ \E x \in Coords, y \in Coords : OffsetCurve(x, y, y, x + 1, x + 1, y + 1)

(***************************************************************************)
(* Glyph outlines.  An outline is the tuple the program keeps: an opcode   *)
(* string followed by its operands, ended by "e".  at(t, i) is Python's    *)
(* t[i], counted from 0.  Glyph coordinates are integers in font units.    *)
(***************************************************************************)
at(t, i) == t[i + 1]

RECURSIVE path_from_unknown_ends(_, _, _, _, _)
\* mutant: an unknown opcode ends the glyph as "e" does
path_from_unknown_ends(outline, i, x1, y1, made) ==
    LET op == at(outline, i)
    IN  CASE op = "m" ->
                path_from_unknown_ends(outline, i + 3, at(outline, i + 1), at(outline, i + 2),
                          Append(made, MoveCall(at(outline, i + 1), at(outline, i + 2))))
          [] op = "l" ->
                path_from_unknown_ends(outline, i + 3, at(outline, i + 1), at(outline, i + 2),
                          Append(made, DrawCall(at(outline, i + 1), at(outline, i + 2))))
          [] op = "c" ->
                path_from_unknown_ends(outline, i + 7, at(outline, i + 5), at(outline, i + 6),
                          Append(made, CurveCall(at(outline, i + 1), at(outline, i + 2),
                                                 at(outline, i + 3), at(outline, i + 4),
                                                 at(outline, i + 5), at(outline, i + 6))))
          [] op = "2" ->
                path_from_unknown_ends(outline, i + 5, at(outline, i + 3), at(outline, i + 4),
                          Append(made,
                                 CurveCall(x1 + (2 * (at(outline, i + 1) - x1)) \div 3,
                                           y1 + (2 * (at(outline, i + 2) - y1)) \div 3,
                                           at(outline, i + 3)
                                               + (2 * (at(outline, i + 1) - at(outline, i + 3))) \div 3,
                                           at(outline, i + 4)
                                               + (2 * (at(outline, i + 2) - at(outline, i + 4))) \div 3,
                                           at(outline, i + 3), at(outline, i + 4))))
          [] OTHER    -> [calls |-> made, raised |-> FALSE]

RECURSIVE path_from_end_first(_, _, _, _, _)
\* mutant: the first pair of a "c" is its end point and the pairs are
\* handed on in reverse
path_from_end_first(outline, i, x1, y1, made) ==
    LET op == at(outline, i)
    IN  CASE op = "m" ->
                path_from_end_first(outline, i + 3, at(outline, i + 1), at(outline, i + 2),
                          Append(made, MoveCall(at(outline, i + 1), at(outline, i + 2))))
          [] op = "l" ->
                path_from_end_first(outline, i + 3, at(outline, i + 1), at(outline, i + 2),
                          Append(made, DrawCall(at(outline, i + 1), at(outline, i + 2))))
          [] op = "c" ->
                path_from_end_first(outline, i + 7, at(outline, i + 1), at(outline, i + 2),
                          Append(made, CurveCall(at(outline, i + 5), at(outline, i + 6),
                                                 at(outline, i + 3), at(outline, i + 4),
                                                 at(outline, i + 1), at(outline, i + 2))))
          [] op = "2" ->
                LET qx == at(outline, i + 1)
                    qy == at(outline, i + 2)
                    ex == at(outline, i + 3)
                    ey == at(outline, i + 4)
                IN  path_from_end_first(outline, i + 5, ex, ey,
                              Append(made,
                                     CurveCall(x1 + (2 * (qx - x1)) \div 3,
                                               y1 + (2 * (qy - y1)) \div 3,
                                               ex + (2 * (qx - ex)) \div 3,
                                               ey + (2 * (qy - ey)) \div 3,
                                               ex, ey)))
          [] op = "e" -> [calls |-> made, raised |-> FALSE]
          [] OTHER    -> [calls |-> made, raised |-> TRUE]

RECURSIVE path_from(_, _, _, _, _)
\* The loop of Glyph.path from position i of the outline with the current
\* point (x1, y1), after the calls `made`: all the calls it makes on `calls`,
\* in order, and whether it ends in ValueError.  The quadratic form "2"
\* divides by 3.
path_from(outline, i, x1, y1, made) ==
    LET op == at(outline, i)
    IN  CASE op = "m" ->
                path_from(outline, i + 3, at(outline, i + 1), at(outline, i + 2),
                          Append(made, MoveCall(at(outline, i + 1), at(outline, i + 2))))
          [] op = "l" ->
                path_from(outline, i + 3, at(outline, i + 1), at(outline, i + 2),
                          Append(made, DrawCall(at(outline, i + 1), at(outline, i + 2))))
          [] op = "c" ->
                path_from(outline, i + 7, at(outline, i + 5), at(outline, i + 6),
                          Append(made, CurveCall(at(outline, i + 1), at(outline, i + 2),
                                                 at(outline, i + 3), at(outline, i + 4),
                                                 at(outline, i + 5), at(outline, i + 6))))
          [] op = "2" ->
                LET qx == at(outline, i + 1)
                    qy == at(outline, i + 2)
                    ex == at(outline, i + 3)
                    ey == at(outline, i + 4)
                IN  path_from(outline, i + 5, ex, ey,
                              Append(made,
                                     CurveCall(x1 + (2 * (qx - x1)) \div 3,
                                               y1 + (2 * (qy - y1)) \div 3,
                                               ex + (2 * (qx - ex)) \div 3,
                                               ey + (2 * (qy - ey)) \div 3,
                                               ex, ey)))
          [] op = "e" -> [calls |-> made, raised |-> FALSE]
          [] OTHER    -> [calls |-> made, raised |-> TRUE]

\* Glyph.path(calls) of gcode_font.py
Glyph_path(outline) == path_from(outline, 0, 0, 0, <<>>)

\* Font.outline_path(ucs4, outlines, offset, calls) of gcode_text.py, the
\* same loop over the shared outlines array
outline_path(outlines, offset) == path_from(outlines, offset, 0, 0, <<>>)

(***************************************************************************)
(* MeasureDraw.  1e30 is scaled down to Huge.                              *)
(***************************************************************************)
Huge == 1000000

MeasureDraw_init(tol) ==
    [min_x |-> Huge, max_x |-> -Huge, min_y |-> Huge, max_y |-> -Huge,
     last_x |-> 0, last_y |-> 0, tolerance |-> tol]

MeasureDraw_point(self, x, y) ==
    [self EXCEPT !.min_x = Min(@, x), !.min_y = Min(@, y),
                 !.max_x = Max(@, x), !.max_y = Max(@, y)]

MeasureDraw_move(self, x, y) == [self EXCEPT !.last_x = x, !.last_y = y]

MeasureDraw_draw(self, x, y) ==
    [MeasureDraw_point(MeasureDraw_point(self, self.last_x, self.last_y), x, y)
        EXCEPT !.last_x = x, !.last_y = y]

RECURSIVE decompose(_, _, _)
\* Spline.decompose as a function, at recursion depth `depth`: the points it
\* returns, or RecursionError
decompose(s, tol, depth) ==
    IF flat_enough(s, tol) THEN [ret |-> <<s.d>>, raised |-> FALSE]
    ELSE IF depth >= RecursionLimit THEN [ret |-> <<>>, raised |-> TRUE]
    ELSE Let(de_casteljau(s), LAMBDA halves :
             Let(decompose(halves[1], tol, depth + 1), LAMBDA r1 :
             Let(decompose(halves[2], tol, depth + 1), LAMBDA r2 :
                 [ret |-> r1.ret \o r2.ret, raised |-> r1.raised \/ r2.raised])))

RECURSIVE MeasureDraw_points(_, _)
\* for p in ps: self.point(p.x, p.y)
MeasureDraw_points(self, ps) ==
    IF Len(ps) = 0 THEN self
    ELSE MeasureDraw_points(MeasureDraw_point(self, Head(ps).x, Head(ps).y), Tail(ps))

\* MeasureDraw.curve: the object after the call, and whether decompose raised
MeasureDraw_curve(self, x1, y1, x2, y2, x3, y3) ==
    LET s == Spline(Point(self.last_x, self.last_y), Point(x1, y1), Point(x2, y2),
                    Point(x3, y3))
    IN  Let(decompose(s, self.tolerance, 0), LAMBDA ps :
            IF ps.raised THEN [self |-> self, raised |-> TRUE]
            ELSE [self   |-> MeasureDraw_draw(
                                 MeasureDraw_points(self, SubSeq(ps.ret, 1, Len(ps.ret) - 1)),
                                 ps.ret[Len(ps.ret)].x, ps.ret[Len(ps.ret)].y),
                  raised |-> FALSE])

\* one call on a MeasureDraw: the object after it, and whether it raised
MeasureDraw_call(self, c) ==
    CASE c.op = "move" ->
            [self |-> MeasureDraw_move(self, c.a[1], c.a[2]), raised |-> FALSE]
      [] c.op = "draw" ->
            [self |-> MeasureDraw_draw(self, c.a[1], c.a[2]), raised |-> FALSE]
      [] c.op = "curve" ->
            MeasureDraw_curve(self, c.a[1], c.a[2], c.a[3], c.a[4], c.a[5], c.a[6])

RECURSIVE MeasureDraw_calls(_, _)
\* a MeasureDraw after the calls cs, made in order
MeasureDraw_calls(self, cs) ==
    IF Len(cs) = 0 THEN [self |-> self, raised |-> FALSE]
    ELSE Let(MeasureDraw_call(self, Head(cs)), LAMBDA e :
             IF e.raised THEN e ELSE MeasureDraw_calls(e.self, Tail(cs)))

\* lines 181-185 of gcode_font.py, 702-706 of gcode_text.py: nothing was inked
ink_box(m) ==
    IF m.min_x > m.max_x \/ m.min_y > m.max_y
    THEN [m EXCEPT !.min_x = 0, !.max_x = 0, !.min_y = 0, !.max_y = 0]
    ELSE m

(***************************************************************************)
(* The SVG font file.  A glyph element is [unicode, horiz_adv_x, d], d     *)
(* being its path as svg.path parses it: segments with complex start and   *)
(* end points.  An element without a "d" attribute has the empty path.     *)
(* The file is a conforming SVG font: its missing-glyph element comes      *)
(* before its glyph elements.  The curves of the file are flat, so that    *)
(* measuring them needs no subdivision.                                    *)
(***************************************************************************)
Complex(re, im) == [real |-> re, imag |-> im]

Move(x, y) == [kind |-> "Move", start |-> Complex(x, y), end |-> Complex(x, y)]
Line(x0, y0, x, y) == [kind |-> "Line", start |-> Complex(x0, y0), end |-> Complex(x, y)]
Close(x0, y0, x, y) == [kind |-> "Close", start |-> Complex(x0, y0), end |-> Complex(x, y)]
CubicBezier(x0, y0, x1, y1, x2, y2, x, y) ==
    [kind |-> "CubicBezier", start |-> Complex(x0, y0), control1 |-> Complex(x1, y1),
     control2 |-> Complex(x2, y2), end |-> Complex(x, y)]

MissingGlyph ==
    [unicode |-> 0, horiz_adv_x |-> 3,
     d |-> <<Line(1, 0, 1, 2), Line(1, 2, 2, 2), Close(2, 2, 1, 0)>>]

GlyphElements ==
    <<[unicode |-> 65, horiz_adv_x |-> 4, d |-> <<Line(0, 0, 2, 3), Line(2, 3, 3, 0)>>],
      [unicode |-> 65, horiz_adv_x |-> 2, d |-> <<Line(1, 0, 1, 1)>>],
      [unicode |-> 66, horiz_adv_x |-> 2,
       d |-> <<Move(-1, -1), CubicBezier(-1, -1, 0, 0, 1, 1, 2, 2)>>],
      [unicode |-> 321, horiz_adv_x |-> 5, d |-> <<>>]>>

\* the codepoints of the strings: two with a glyph element, one without in
\* the page of those, one in a page of its own, one in a page without glyphs
Codepoints == {65, 66, 67, 321, 577}

Strings == UNION {[1 .. n -> Codepoints] : n \in 0 .. MaxLen}

RECURSIVE svg_outline_from(_, _, _, _, _)
\* lines 292-313 of gcode_font.py, 738-760 of gcode_text.py: the outline of
\* the rest of the path, the last segment having ended at (cur_x, cur_y) and
\* the last move having gone to (mov_x, mov_y)
svg_outline_from(path, cur_x, cur_y, mov_x, mov_y) ==
    IF Len(path) = 0 THEN <<"e">>
    ELSE LET p      == Head(path)
             jumped == p.start.real # cur_x \/ p.start.imag # cur_y
             mx     == IF jumped THEN p.start.real ELSE mov_x
             my     == IF jumped THEN p.start.imag ELSE mov_y
             move   == IF jumped THEN <<"m", p.start.real, -p.start.imag>> ELSE <<>>
             seg    == CASE p.kind = "Move" -> <<>>
                         [] p.kind = "Line" -> <<"l", p.end.real, -p.end.imag>>
                         [] p.kind = "CubicBezier" ->
                                <<"c", p.control1.real, -p.control1.imag,
                                       p.control2.real, -p.control2.imag,
                                       p.end.real, -p.end.imag>>
                         [] p.kind = "Close" ->
                                IF cur_x # mx \/ cur_y # my THEN <<"l", mx, my>> ELSE <<>>
                         [] OTHER -> <<>>
         IN  move \o seg \o svg_outline_from(Tail(path), p.end.real, p.end.imag, mx, my)

svg_outline(path) == svg_outline_from(path, 0, 0, 0, 0)

(***************************************************************************)
(* gcode_font.py: Glyph and Font.  The flatness units_per_em / 1e5 is a    *)
(* tolerance below the resolution of integer control points, whose         *)
(* error_squared is an integer: it is within 16 * flatness^2 < 1 exactly   *)
(* when it is 0, which is the test at tolerance 0.  floor, ceil and        *)
(* chkfloat return the integers they are given.                            *)
(***************************************************************************)
FontFlatness == 0

TextMetrics(l, r, w, a, d) ==
    [left_side_bearing |-> l, right_side_bearing |-> r, width |-> w,
     ascent |-> a, descent |-> d]

\* Glyph.measure_ink
Glyph_measure_ink(outline, width, flatness) ==
    Let(MeasureDraw_calls(MeasureDraw_init(flatness), Glyph_path(outline).calls),
        LAMBDA measured :
            Let(ink_box(measured.self), LAMBDA m :
                [metrics |-> TextMetrics(m.min_x, m.max_x, width, -m.min_y, m.max_y),
                 raised  |-> measured.raised]))

\* Glyph.__init__
Glyph(ucs4, width, outline, flatness) ==
    [ucs4 |-> ucs4, outline |-> outline,
     metrics |-> Glyph_measure_ink(outline, width, flatness).metrics]

\* Font.__init__ of gcode_font.py
Font_init == [glyphs |-> <<>>]

\* Font.add_svg_glyph of gcode_font.py
Font_add_svg_glyph(self, element, missing) ==
    LET ucs4  == IF missing THEN 0 ELSE element.unicode
        glyph == Glyph(ucs4, element.horiz_adv_x, svg_outline(element.d), FontFlatness)
    IN  [self EXCEPT !.glyphs =
            [c \in DOMAIN self.glyphs \cup {ucs4} |->
                IF c = ucs4 THEN glyph ELSE self.glyphs[c]]]

\* Font.glyph of gcode_font.py
Font_glyph(self, ucs4) ==
    IF ucs4 \in DOMAIN self.glyphs THEN self.glyphs[ucs4] ELSE self.glyphs[0]

(***************************************************************************)
(* gcode_text.py: Charmap and Font.  outlines is one array for all glyphs:  *)
(* per glyph its codepoint, then at the glyph's offset left, right, width,  *)
(* ascent, descent, the two snap counts, the snaps and the outline.        *)
(***************************************************************************)
UCS_PAGE_SHIFT == 8
UCS_PER_PAGE == 2 ^ UCS_PAGE_SHIFT

\* the offset of a codepoint without a glyph: Charmap(page, 256*[1])
NoGlyphOffset == 1

ucs_page(ucs4) == ucs4 \div UCS_PER_PAGE
ucs_char_in_page(ucs4) == ucs4 % UCS_PER_PAGE

Charmap(page, offsets) == [page |-> page, offsets |-> offsets]

\* Font('unknown', None, (), (), 0, 0, 0, 0)
TextFont_init == [charmap |-> <<>>, outlines |-> <<>>, ascent |-> 0, descent |-> 0]

\* the charmaps of the page, by position
PageHits(self, page) == {i \in 1 .. Len(self.charmap) : self.charmap[i].page = page}

\* the first of them
FirstHit(self, page) ==
    CHOOSE i \in PageHits(self, page) : \A j \in PageHits(self, page) : i <= j

\* mutant: for a page without charmap, the slot of the codepoint in the
\* first charmap
glyph_offset_first_page(self, ucs4) ==
    LET page == ucs_page(ucs4)
        idx  == ucs_char_in_page(ucs4)
    IN  IF PageHits(self, page) # {}
        THEN self.charmap[FirstHit(self, page)].offsets[idx]
        ELSE at(self.charmap, 0).offsets[idx]

\* Font.glyph_offset of gcode_text.py
glyph_offset(self, ucs4) ==
    LET page == ucs_page(ucs4)
        idx  == ucs_char_in_page(ucs4)
    IN  IF PageHits(self, page) # {}
        THEN self.charmap[FirstHit(self, page)].offsets[idx]
        ELSE at(self.charmap, 0).offsets[0]

glyph_left(self, offset)     == at(self.outlines, offset + 0)
glyph_right(self, offset)    == at(self.outlines, offset + 1)
glyph_width(self, offset)    == at(self.outlines, offset + 2)
glyph_ascent(self, offset)   == at(self.outlines, offset + 3)
glyph_descent(self, offset)  == at(self.outlines, offset + 4)
glyph_n_snap_x(self, offset) == at(self.outlines, offset + 5)
glyph_n_snap_y(self, offset) == at(self.outlines, offset + 6)

glyph_draw(self, offset) ==
    offset + 7 + glyph_n_snap_x(self, offset) + glyph_n_snap_y(self, offset)

\* Font.add_offset of gcode_text.py
add_offset(self, ucs4, offset) ==
    LET page  == ucs_page(ucs4)
        idx   == ucs_char_in_page(ucs4)
        added == IF PageHits(self, page) # {} THEN self.charmap
                 ELSE Append(self.charmap,
                             Charmap(page, [k \in 0 .. UCS_PER_PAGE - 1 |-> NoGlyphOffset]))
        i     == IF PageHits(self, page) # {} THEN FirstHit(self, page) ELSE Len(added)
    IN  [self EXCEPT !.charmap = [added EXCEPT ![i].offsets[idx] = offset]]

\* Font.measure_ink of gcode_text.py: the list it returns
TextFont_measure_ink(self, outlines, offset) ==
    Let(MeasureDraw_calls(MeasureDraw_init(FontFlatness),
                          outline_path(outlines, offset).calls),
        LAMBDA measured :
            Let(ink_box(measured.self), LAMBDA m :
                [measure |-> <<m.min_x, m.max_x, 0, -m.min_y, m.max_y>>,
                 raised  |-> measured.raised]))

\* Font.add_svg_glyph of gcode_text.py
TextFont_add_svg_glyph(self, element, missing) ==
    LET ucs4    == IF missing THEN 0 ELSE element.unicode
        offset  == Len(self.outlines) + 1
        mapped  == add_offset(self, ucs4, offset)
        outline == svg_outline(element.d)
        measure == [TextFont_measure_ink(self, outline, 0).measure
                       EXCEPT ![3] = element.horiz_adv_x]
    IN  [mapped EXCEPT !.outlines = @ \o <<ucs4>> \o measure \o <<0, 0>> \o outline]

(***************************************************************************)
(* Drawing and measuring a string.  A Draw object the glyph loop is given  *)
(* receives the calls of path_from in order.                               *)
(***************************************************************************)
OffsetDraw_call(self, call) ==
    CASE call.op = "move"  -> OffsetDraw_move(self, call.a[1], call.a[2])
      [] call.op = "draw"  -> OffsetDraw_draw(self, call.a[1], call.a[2])
      [] call.op = "curve" -> OffsetDraw_curve(self, call.a[1], call.a[2], call.a[3],
                                               call.a[4], call.a[5], call.a[6])

\* what a call that ended in an exception returns
NoReturn == -1

RECURSIVE OffsetDraw_calls(_, _, _)
\* an OffsetDraw after the calls cs, and the calls it has forwarded, in
\* order, `sent` being those forwarded before
OffsetDraw_calls(self, cs, sent) ==
    IF Len(cs) = 0 THEN [self |-> self, chain |-> sent]
    ELSE Let(OffsetDraw_call(self, Head(cs)), LAMBDA e :
             OffsetDraw_calls(e.self, Tail(cs), sent \o e.chain))

\* Font.glyph_path of gcode_font.py: calls as the glyph leaves it, what it
\* forwarded, and the width returned, or the ValueError of glyph.path
Font_glyph_path(self, ucs4, calls) ==
    Let(Font_glyph(self, ucs4), LAMBDA glyph :
        Let(Glyph_path(glyph.outline), LAMBDA made :
            Let(OffsetDraw_calls(calls, made.calls, <<>>), LAMBDA e :
                [calls |-> e.self, chain |-> e.chain, ret |-> glyph.metrics.width,
                 raised |-> made.raised])))

RECURSIVE Font_text_path_loop(_, _, _, _)
\* the loop of Font.text_path of gcode_font.py, and its return, `sent` being
\* the calls made on `calls` before
Font_text_path_loop(self, s, glyph_calls, sent) ==
    IF Len(s) = 0
    THEN [ret |-> glyph_calls.offset_x, chain |-> sent, raised |-> FALSE]
    ELSE Let(Font_glyph_path(self, Head(s), glyph_calls), LAMBDA g :
             IF g.raised
             THEN [ret |-> NoReturn, chain |-> sent \o g.chain, raised |-> TRUE]
             ELSE Font_text_path_loop(self, Tail(s), OffsetDraw_step(g.calls, g.ret, 0),
                                      sent \o g.chain))

\* Font.text_path of gcode_font.py: the value returned and the calls made on
\* `calls`
Font_text_path(self, s) == Font_text_path_loop(self, s, OffsetDraw_init, <<>>)

\* TextMetrics.copy
TextMetrics_copy(m) ==
    TextMetrics(m.left_side_bearing, m.right_side_bearing, m.width, m.ascent, m.descent)

RECURSIVE Font_text_metrics_loop_no_advance(_, _, _, _, _)
\* mutant: x is not advanced by the glyph's width
Font_text_metrics_loop_no_advance(self, s, x, ret_, started) ==
    IF Len(s) = 0 THEN ret_
    ELSE Let(Font_glyph(self, Head(s)).metrics, LAMBDA m :
             Let(IF started
                 THEN TextMetrics(Min(ret_.left_side_bearing, m.left_side_bearing + x),
                                  Max(ret_.right_side_bearing, m.right_side_bearing + x),
                                  Max(ret_.width, m.width + x),
                                  Max(ret_.ascent, m.ascent),
                                  Max(ret_.descent, m.descent))
                 ELSE TextMetrics_copy(m),
                 LAMBDA folded :
                     Font_text_metrics_loop_no_advance(self, Tail(s), x, folded, TRUE)))

RECURSIVE Font_text_metrics_loop(_, _, _, _, _)
\* the loop of Font.text_metrics of gcode_font.py, and its return
Font_text_metrics_loop(self, s, x, ret_, started) ==
    IF Len(s) = 0 THEN ret_
    ELSE Let(Font_glyph(self, Head(s)).metrics, LAMBDA m :
             Let(IF started
                 THEN TextMetrics(Min(ret_.left_side_bearing, m.left_side_bearing + x),
                                  Max(ret_.right_side_bearing, m.right_side_bearing + x),
                                  Max(ret_.width, m.width + x),
                                  Max(ret_.ascent, m.ascent),
                                  Max(ret_.descent, m.descent))
                 ELSE TextMetrics_copy(m),
                 LAMBDA folded :
                     Font_text_metrics_loop(self, Tail(s), x + m.width, folded, TRUE)))

\* mutant: ret is the first glyph's metrics object itself, not a copy, so
\* what the loop folds into ret is left in the glyph
Font_text_metrics_shared(self, s) ==
    LET ret_ == Font_text_metrics_loop(self, s, 0, TextMetrics(0, 0, 0, 0, 0), FALSE)
    IN  [ret  |-> ret_,
         self |-> IF Len(s) = 0 THEN self
                  ELSE [self EXCEPT !.glyphs[Font_glyph(self, s[1]).ucs4].metrics = ret_]]

\* Font.text_metrics of gcode_font.py: the TextMetrics returned, and the Font
\* as the call leaves it
Font_text_metrics(self, s) ==
    [ret  |-> Font_text_metrics_loop(self, s, 0, TextMetrics(0, 0, 0, 0, 0), FALSE),
     self |-> self]

\* TextMetrics of gcode_text.py
TextMetrics7(l, r, a, d, w, fa, fd) ==
    [left_side_bearing |-> l, right_side_bearing |-> r, ascent |-> a, descent |-> d,
     width |-> w, font_ascent |-> fa, font_descent |-> fd]

\* Font.glyph_metrics of gcode_text.py
glyph_metrics(self, ucs4) ==
    Let(glyph_offset(self, ucs4), LAMBDA glyph_start :
        TextMetrics7(glyph_left(self, glyph_start), glyph_right(self, glyph_start),
                     glyph_ascent(self, glyph_start), glyph_descent(self, glyph_start),
                     glyph_width(self, glyph_start), self.ascent, self.descent))

\* Font.glyph_path of gcode_text.py
TextFont_glyph_path(self, ucs4, calls) ==
    Let(glyph_offset(self, ucs4), LAMBDA glyph_start :
        Let(glyph_draw(self, glyph_start), LAMBDA offset :
            Let(outline_path(self.outlines, offset), LAMBDA made :
                Let(OffsetDraw_calls(calls, made.calls, <<>>), LAMBDA e :
                    [calls |-> e.self, chain |-> e.chain,
                     ret |-> glyph_width(self, glyph_start),
                     raised |-> made.raised]))))

RECURSIVE TextFont_text_path_loop(_, _, _, _)
\* the loop of Font.text_path of gcode_text.py, and its return, `sent` being
\* the calls made on `calls` before
TextFont_text_path_loop(self, s, glyph_calls, sent) ==
    IF Len(s) = 0
    THEN [ret |-> glyph_calls.offset_x, chain |-> sent, raised |-> FALSE]
    ELSE Let(TextFont_glyph_path(self, Head(s), glyph_calls), LAMBDA g :
             IF g.raised
             THEN [ret |-> NoReturn, chain |-> sent \o g.chain, raised |-> TRUE]
             ELSE TextFont_text_path_loop(self, Tail(s),
                                          OffsetDraw_step(g.calls, g.ret, 0),
                                          sent \o g.chain))

TextFont_text_path(self, s) == TextFont_text_path_loop(self, s, OffsetDraw_init, <<>>)

RECURSIVE TextFont_text_metrics_loop(_, _, _, _, _)
\* the loop of Font.text_metrics of gcode_text.py, and its return
TextFont_text_metrics_loop(self, s, x, ret_, started) ==
    IF Len(s) = 0 THEN ret_
    ELSE Let([glyph_metrics(self, Head(s))
                 EXCEPT !.left_side_bearing = @ + x, !.right_side_bearing = @ + x,
                        !.width = @ + x],
             LAMBDA m :
                 Let(IF started
                     THEN [ret_ EXCEPT !.left_side_bearing = Min(@, m.left_side_bearing),
                                       !.right_side_bearing = Max(@, m.right_side_bearing),
                                       !.ascent = Max(@, m.ascent),
                                       !.descent = Max(@, m.descent),
                                       !.width = Max(@, m.width)]
                     ELSE m,
                     LAMBDA folded :
                         TextFont_text_metrics_loop(self, Tail(s), m.width, folded, TRUE)))

TextFont_text_metrics(self, s) ==
    TextFont_text_metrics_loop(self, s, 0, TextMetrics7(0, 0, 0, 0, 0, 0, 0), FALSE)

(***************************************************************************)
(* Loading a font and using it.  A run loads the font and performs one     *)
(* operation on it.                                                        *)
(***************************************************************************)
NoTextOp == [op |-> "none"]

FontInit ==
    /\ font = Font_init
    /\ tfont = TextFont_init
    /\ loaded = FALSE
    /\ file = <<>>
    /\ textop = NoTextOp

\* an element of the font file is read by both parsers
Added(element, missing) ==
    /\ ~loaded
    /\ font' = Font_add_svg_glyph(font, element, missing)
    /\ tfont' = TextFont_add_svg_glyph(tfont, element, missing)
    /\ file' = Append(file, element)
    /\ UNCHANGED <<loaded, textop>>
    /\ UNCHANGED <<splineVars, matrixVars, offsetVars, rectVars, mainVars, svgVars, pipeVars, loopVars>>

\* the missing-glyph element
AddMissingGlyph ==
    /\ Len(file) = 0
    /\ Added(MissingGlyph, TRUE)

\* a glyph element
AddGlyph(element) ==
    /\ Len(file) > 0
    /\ Len(file) <= MaxGlyphs
    /\ Added(element, FALSE)

\* parse_svg_font returns
Loaded ==
    /\ ~loaded
    /\ Len(file) > 0
    /\ loaded' = TRUE
    /\ UNCHANGED <<font, tfont, file, textop>>
    /\ UNCHANGED <<splineVars, matrixVars, offsetVars, rectVars, mainVars, svgVars, pipeVars, loopVars>>

\* font.glyph(c), and glyph_offset(c) of gcode_text.py
LookupGlyph(c) ==
    /\ loaded
    /\ textop = NoTextOp
    /\ textop' = [op |-> "glyph", c |-> c, glyph |-> Font_glyph(font, c),
                  offset |-> glyph_offset(tfont, c)]
    /\ UNCHANGED <<font, tfont, loaded, file>>
    /\ UNCHANGED <<splineVars, matrixVars, offsetVars, rectVars, mainVars, svgVars, pipeVars, loopVars>>

\* font.text_path(s, calls) by both implementations
DrawText(s) ==
    /\ loaded
    /\ textop = NoTextOp
    /\ textop' = [op |-> "text_path", s |-> s, path |-> Font_text_path(font, s),
                  tpath |-> TextFont_text_path(tfont, s)]
    /\ UNCHANGED <<font, tfont, loaded, file>>
    /\ UNCHANGED <<splineVars, matrixVars, offsetVars, rectVars, mainVars, svgVars, pipeVars, loopVars>>

\* font.text_metrics(s) by both implementations; before keeps the metrics
\* every glyph had at the call
MeasureText(s) ==
    /\ loaded
    /\ textop = NoTextOp
    /\ font' = Font_text_metrics(font, s).self
    /\ textop' = [op |-> "text_metrics", s |-> s,
                  metrics  |-> Font_text_metrics(font, s).ret,
                  tmetrics |-> TextFont_text_metrics(tfont, s),
                  before   |-> [c \in DOMAIN font.glyphs |-> font.glyphs[c].metrics]]
    /\ UNCHANGED <<tfont, loaded, file>>
    /\ UNCHANGED <<splineVars, matrixVars, offsetVars, rectVars, mainVars, svgVars, pipeVars, loopVars>>

(***************************************************************************)
(* Glyph programs given to the interpreter directly.  A program is a list  *)
(* of instruction numbers; coordinates are multiples of 3, so that the     *)
(* thirds of the quadratic form are exact.                                 *)
(***************************************************************************)
NInstructions == 5

Instruction(k) ==
    CASE k = 1 -> <<"m", 3, 6>>
      [] k = 2 -> <<"l", 6, 9>>
      [] k = 3 -> <<"c", 3, 0, 6, 3, 9, 12>>
      [] k = 4 -> <<"2", 3, 3, 6, 0>>
      [] k = 5 -> <<"x">>

ProgramLists == UNION {[1 .. n -> 1 .. NInstructions] : n \in 0 .. MaxProgram}

RECURSIVE outline_of(_)
\* the outline tuple of a program
outline_of(ks) ==
    IF Len(ks) = 0 THEN <<"e">> ELSE Instruction(Head(ks)) \o outline_of(Tail(ks))

\* a Glyph of gcode_font.py whose outline is o, in a Font as glyph 0
FontOfOutline(o) ==
    [glyphs |-> [c \in {0} |-> [ucs4 |-> 0, outline |-> o,
                                metrics |-> TextMetrics(0, 0, 7, 0, 0)]]]

\* a Font of gcode_text.py whose table holds o as glyph 0, at offset 1
TextFontOfOutline(o) ==
    [charmap  |-> <<Charmap(0, [k \in 0 .. UCS_PER_PAGE - 1 |-> NoGlyphOffset])>>,
     outlines |-> <<0, 0, 0, 7, 0, 0, 0, 0>> \o o,
     ascent |-> 0, descent |-> 0]

\* glyph.path(calls) on the program, and text_path of a one-glyph string by
\* both implementations
InterpretProgram(ks) ==
    /\ loaded
    /\ textop = NoTextOp
    /\ textop' = [op |-> "path", program |-> ks,
                  path  |-> Glyph_path(outline_of(ks)),
                  fpath |-> Font_text_path(FontOfOutline(outline_of(ks)), <<0>>),
                  tpath |-> TextFont_text_path(TextFontOfOutline(outline_of(ks)), <<0>>)]
    /\ UNCHANGED <<font, tfont, loaded, file>>
    /\ UNCHANGED <<splineVars, matrixVars, offsetVars, rectVars, mainVars, svgVars, pipeVars, loopVars>>

(***************************************************************************)
(* The built-in font of gcode_text.py: the head of its outlines table, the *)
(* glyphs 0x00, 0x20, 0x21 and 0x22, and the slots of its first charmap    *)
(* that point to them.                                                     *)
(***************************************************************************)
outlines ==
    <<0,
      9, 37, 45, 42, 0, 2, 2,
      0, 32,
      -42, 0,
      "m", 9, 0,
      "l", 9, -42,
      "l", 37, -42,
      "l", 37, 0,
      "l", 9, 0,
      "e",
      32,
      4, 4, 16, 0, 0, 1, 0,
      4,
      "e",
      33,
      11, 13, 24, 42, 0, 3, 3,
      0, 2, 4,
      -21, -15, 0,
      "m", 12, -42,
      "l", 12, -14,
      "m", 11, 0,
      "l", 11, -2,
      "l", 13, -2,
      "l", 13, 0,
      "l", 11, 0,
      "e",
      34,
      13, 22, 35, 43, -30, 2, 3,
      0, 16,
      -21, -15, 0,
      "m", 13, -43,
      "l", 13, -30,
      "m", 22, -30,
      "l", 22, -43,
      "e">>

charmap ==
    <<Charmap(0, [k \in 0 .. UCS_PER_PAGE - 1 |->
                     CASE k = 32 -> 29 [] k = 33 -> 39 [] k = 34 -> 75 [] OTHER -> 1])>>

default_font == [charmap |-> charmap, outlines |-> outlines, ascent |-> 50, descent |-> 14]

BuiltinCodepoints == {0, 32, 33, 34}

\* the stored metrics of a glyph of the built-in font, and its ink measured
\* again from its outline
MeasureBuiltin(ucs4) ==
    /\ loaded
    /\ textop = NoTextOp
    /\ textop' =
           [op |-> "measure_ink", ucs4 |-> ucs4,
            metrics |-> glyph_metrics(default_font, ucs4),
            measure |-> TextFont_measure_ink(
                            default_font, default_font.outlines,
                            glyph_draw(default_font, glyph_offset(default_font, ucs4)))]
    /\ UNCHANGED <<font, tfont, loaded, file>>
    /\ UNCHANGED <<splineVars, matrixVars, offsetVars, rectVars, mainVars, svgVars, pipeVars, loopVars>>

NextFont ==
    \/ \E ks \in ProgramLists : InterpretProgram(ks)
    \/ \E ucs4 \in BuiltinCodepoints : MeasureBuiltin(ucs4)
    \/ AddMissingGlyph
    \/ \E i \in 1 .. Len(GlyphElements) : AddGlyph(GlyphElements[i])
    \/ Loaded
    \/ \E c \in Codepoints : LookupGlyph(c)
    \/ \E s \in Strings : DrawText(s)
    \/ \E s \in Strings : MeasureText(s)

(***************************************************************************)
(* text_into_rect.  Lengths of the device (the rectangle, the border, the  *)
(* offsets) and the scale are rationals whose denominators divide          *)
(* den = 2 * text_width * text_height.  From the scale on they are held as *)
(* integers counted in units of 1/den, so that every division of the code  *)
(* is exact.  The matrix builders are called with the translation and the  *)
(* scale in that unit: the translation enters the product once and the     *)
(* linear part is multiplied by the scale once, so the final Matrix maps a *)
(* glyph point in font units to the device point in units of 1/den.        *)
(***************************************************************************)
Rect(top_left, bottom_right) == [top_left |-> top_left, bottom_right |-> bottom_right]

\* Draw.rect: the calls it makes on self
Draw_rect(r) ==
    <<MoveCall(r.top_left.x, r.top_left.y),
      DrawCall(r.bottom_right.x, r.top_left.y),
      DrawCall(r.bottom_right.x, r.bottom_right.y),
      DrawCall(r.top_left.x, r.bottom_right.y),
      DrawCall(r.top_left.x, r.top_left.y)>>

\* mutant: of a curve only the end point is transformed
MatrixDraw_call_end_only(m, c) ==
    CASE c.op = "move" ->
            Let(point(m, Point(c.a[1], c.a[2])), LAMBDA p : MoveCall(p.x, p.y))
      [] c.op = "draw" ->
            Let(point(m, Point(c.a[1], c.a[2])), LAMBDA p : DrawCall(p.x, p.y))
      [] c.op = "curve" ->
            Let(point(m, Point(c.a[5], c.a[6])),
                LAMBDA p : CurveCall(c.a[1], c.a[2], c.a[3], c.a[4], p.x, p.y))

\* MatrixDraw.move, draw and curve: the call made on the chain
MatrixDraw_call(m, c) ==
    CASE c.op = "move" ->
            Let(point(m, Point(c.a[1], c.a[2])), LAMBDA p : MoveCall(p.x, p.y))
      [] c.op = "draw" ->
            Let(point(m, Point(c.a[1], c.a[2])), LAMBDA p : DrawCall(p.x, p.y))
      [] c.op = "curve" ->
            Let(<<point(m, Point(c.a[1], c.a[2])), point(m, Point(c.a[3], c.a[4])),
                  point(m, Point(c.a[5], c.a[6]))>>,
                LAMBDA q : CurveCall(q[1].x, q[1].y, q[2].x, q[2].y, q[3].x, q[3].y))

\* a MatrixDraw given the calls cs: the calls it makes on its chain
MatrixDraw_calls(m, cs) == [i \in 1 .. Len(cs) |-> MatrixDraw_call(m, cs[i])]

\* LineDraw.__init__ assigns chain and tolerance; last_x and last_y exist
\* once a move or a draw has assigned them
LineDraw_init(tol) == [has_last |-> FALSE, last_x |-> 0, last_y |-> 0, tolerance |-> tol]

\* mutant: the last point is not drawn
LineDraw_draws_but_last(ps) == [i \in 1 .. Len(ps) - 1 |-> DrawCall(ps[i].x, ps[i].y)]

\* for p in ps: self.draw(p.x, p.y)
LineDraw_draws(ps) == [i \in 1 .. Len(ps) |-> DrawCall(ps[i].x, ps[i].y)]

RECURSIVE LineDraw_calls(_, _, _)
\* a LineDraw given the calls cs: the calls it makes on its chain, `sent`
\* being those made before, and the exception that ended it
LineDraw_calls(self, cs, sent) ==
    IF Len(cs) = 0 THEN [chain |-> sent, raised |-> "none"]
    ELSE Let(Head(cs), LAMBDA c :
        CASE c.op \in {"move", "draw"} ->
                LineDraw_calls([self EXCEPT !.has_last = TRUE, !.last_x = c.a[1],
                                            !.last_y = c.a[2]],
                               Tail(cs), Append(sent, c))
          [] c.op = "curve" ->
                IF ~self.has_last THEN [chain |-> sent, raised |-> "AttributeError"]
                ELSE Let(decompose(Spline(Point(self.last_x, self.last_y),
                                          Point(c.a[1], c.a[2]), Point(c.a[3], c.a[4]),
                                          Point(c.a[5], c.a[6])),
                                   self.tolerance, 0),
                         LAMBDA ps :
                             IF ps.raised THEN [chain |-> sent, raised |-> "RecursionError"]
                             ELSE LineDraw_calls(
                                      [self EXCEPT !.last_x = ps.ret[Len(ps.ret)].x,
                                                   !.last_y = ps.ret[Len(ps.ret)].y],
                                      Tail(cs), sent \o LineDraw_draws(ps.ret))))

\* GCode.get_draw, given the calls cs: the calls that reach GCode.move, draw
\* and curve, each of which prints one line.  tol is values.flatness in the
\* unit of the calls.
get_draw_calls(gcode, cs, tol) ==
    IF gcode.device.curve = "" \/ gcode.values.tesselate
    THEN LineDraw_calls(LineDraw_init(tol), cs, <<>>)
    ELSE [chain |-> cs, raised |-> "none"]

\* a / b > c / d, for b and d other than 0
Greater(a, b, c, d) == a * b * d * d > c * d * b * b

Abs(n) == IF n < 0 THEN -n ELSE n

\* what text_into_rect does: the report it prints, the exception that ends
\* it, the calls of gcode.rect(r) in the unit of r, whether text_metrics and
\* text_path were called, and the calls that reached GCode for the string, in
\* units of 1/den
Effect(report, raised, outline, measured, drawn, lines, den) ==
    [outline |-> outline, raised |-> raised, measured |-> measured, report |-> report,
     drawn |-> drawn, lines |-> lines, den |-> den]

\* lines 208-217 of gcode-text.py
text_extent(self, metrics, font_metrics) ==
    IF font_metrics
    THEN [ascent |-> self.ascent, descent |-> self.descent, text_x |-> 0,
          text_width |-> metrics.width]
    ELSE [ascent |-> metrics.ascent, descent |-> metrics.descent,
          text_x |-> metrics.left_side_bearing,
          text_width |-> metrics.right_side_bearing - metrics.left_side_bearing]

\* lines 5992-6001 of gcode_text.py
GCode_text_extent(metrics, font_height) ==
    IF font_height
    THEN [ascent |-> metrics.font_ascent, descent |-> metrics.font_descent, text_x |-> 0,
          text_width |-> metrics.width]
    ELSE [ascent |-> metrics.ascent, descent |-> metrics.descent,
          text_x |-> metrics.left_side_bearing,
          text_width |-> metrics.right_side_bearing - metrics.left_side_bearing]

\* mutant: the scale is always the one that fits the width
fit_matrix_wide(r, values, y_invert, rect_width, rect_height, e, text_width, text_height, den) ==
    LET scale_     == (rect_width * den) \div text_width
        text_off_y == (rect_height * den - text_height * scale_) \div 2
        text_off_x == CASE values.align = "left" -> 0
                        [] values.align = "center" ->
                               (rect_width * den - text_width * scale_) \div 2
                        [] OTHER -> text_width * den
        metrics_x_adjust == e.text_x * scale_
        translated == translate(Identity,
                                text_off_x - metrics_x_adjust
                                    + (r.top_left.x + values.border) * den,
                                text_off_y + (r.top_left.y + values.border) * den).ret
        sheered    == IF values.oblique THEN sheer(translated, -values.sheer, 0).ret
                      ELSE translated
        scaled     == scale(sheered, scale_, scale_).ret
    IN  IF y_invert THEN scale(scaled, 1, -1).ret
        ELSE translate(scaled, 0, e.ascent).ret

\* lines 225-263 of gcode-text.py, the text being neither empty nor
\* divided by 0: the Matrix text_path is given, in units of 1/den
fit_matrix(r, values, y_invert, rect_width, rect_height, e, text_width, text_height, den) ==
    LET scale_     == IF Greater(text_width, text_height, rect_width, rect_height)
                      THEN (rect_width * den) \div text_width
                      ELSE (rect_height * den) \div text_height
        text_off_y == (rect_height * den - text_height * scale_) \div 2
        text_off_x == CASE values.align = "left" -> 0
                        [] values.align = "center" ->
                               (rect_width * den - text_width * scale_) \div 2
                        [] OTHER -> text_width * den
        metrics_x_adjust == e.text_x * scale_
        translated == translate(Identity,
                                text_off_x - metrics_x_adjust
                                    + (r.top_left.x + values.border) * den,
                                text_off_y + (r.top_left.y + values.border) * den).ret
        sheered    == IF values.oblique THEN sheer(translated, -values.sheer, 0).ret
                      ELSE translated
        scaled     == scale(sheered, scale_, scale_).ret
    IN  IF y_invert THEN scale(scaled, 1, -1).ret
        ELSE translate(scaled, 0, e.ascent).ret

\* lines 219-263 of gcode-text.py: the report, the exception, or the Matrix
\* and its unit
fit(r, values, y_invert, rect_width, rect_height, e) ==
    LET text_height == e.ascent + e.descent
        text_width  == IF values.oblique THEN e.text_width + text_height * values.sheer
                       ELSE e.text_width
        den         == 2 * Abs(text_width * text_height)
    IN  IF e.text_width = 0 \/ text_height = 0
        THEN [report |-> "Text is empty", raised |-> "none", matrix |-> Identity, den |-> 1]
        ELSE IF rect_height = 0 \/ text_width = 0
        THEN [report |-> "none", raised |-> "ZeroDivisionError", matrix |-> Identity,
              den |-> 1]
        ELSE [report |-> "none", raised |-> "none", den |-> den,
              matrix |-> fit_matrix(r, values, y_invert, rect_width, rect_height, e,
                                    text_width, text_height, den)]

\* text_path of gcode-text.py and GCode.text_path of gcode_text.py, drawn
\* being what font.text_path delivered to the MatrixDraw: the calls that
\* reach GCode and the exception
text_path(gcode, m, drawn, den) ==
    Let(get_draw_calls(gcode, MatrixDraw_calls(m, drawn.chain), gcode.values.flatness * den),
        LAMBDA sink :
            [chain  |-> sink.chain,
             raised |-> IF sink.raised # "none" THEN sink.raised
                        ELSE IF drawn.raised THEN "ValueError" ELSE "none"])

\* mutant: no border is reported
rect_check_silent(r, values) ==
    [outline     |-> IF values.rect THEN Draw_rect(r) ELSE <<>>,
     rect_width  |-> r.bottom_right.x - r.top_left.x - values.border * 2,
     rect_height |-> r.bottom_right.y - r.top_left.y - values.border * 2,
     report      |-> "none"]

\* lines 193-204 of gcode-text.py: the calls of gcode.rect(r) and the report
rect_check(r, values) ==
    LET rect_width  == r.bottom_right.x - r.top_left.x - values.border * 2
        rect_height == r.bottom_right.y - r.top_left.y - values.border * 2
    IN  [outline     |-> IF values.rect THEN Draw_rect(r) ELSE <<>>,
         rect_width  |-> rect_width,
         rect_height |-> rect_height,
         report      |-> IF rect_width < 0 THEN "border too wide"
                         ELSE IF rect_height < 0 THEN "border too tall" ELSE "none"]

\* text_into_rect of gcode-text.py
text_into_rect(gcode, r, s, values) ==
    Let(rect_check(r, values), LAMBDA c :
        IF c.report # "none"
        THEN Effect(c.report, "none", c.outline, FALSE, FALSE, <<>>, 1)
        ELSE Let(text_extent(gcode.font, Font_text_metrics(gcode.font, s).ret,
                             values.font_metrics),
                 LAMBDA e :
            Let(fit(r, values, gcode.device.y_invert, c.rect_width, c.rect_height, e),
                LAMBDA f :
                IF f.report # "none" \/ f.raised # "none"
                THEN Effect(f.report, f.raised, c.outline, TRUE, FALSE, <<>>, 1)
                ELSE Let(text_path(gcode, f.matrix, Font_text_path(gcode.font, s), f.den),
                         LAMBDA p :
                             Effect("none", p.raised, c.outline, TRUE, TRUE, p.chain,
                                    f.den)))))

\* GCode.text_into_rect of gcode_text.py, values.font_height in place of
\* values.font_metrics
GCode_text_into_rect(self, r, s) ==
    Let(rect_check(r, self.values), LAMBDA c :
        IF c.report # "none"
        THEN Effect(c.report, "none", c.outline, FALSE, FALSE, <<>>, 1)
        ELSE Let(GCode_text_extent(TextFont_text_metrics(self.font, s),
                                   self.values.font_metrics),
                 LAMBDA e :
            Let(fit(r, self.values, self.device.y_invert, c.rect_width, c.rect_height, e),
                LAMBDA f :
                IF f.report # "none" \/ f.raised # "none"
                THEN Effect(f.report, f.raised, c.outline, TRUE, FALSE, <<>>, 1)
                ELSE Let(text_path(self, f.matrix, TextFont_text_path(self.font, s), f.den),
                         LAMBDA p :
                             Effect("none", p.raised, c.outline, TRUE, TRUE, p.chain,
                                    f.den)))))

(***************************************************************************)
(* Calls of text_into_rect with a loaded font.  The font has a glyph for A *)
(* that is symmetric and sits on the baseline, a glyph for B that reaches  *)
(* left of the origin and below the baseline, and a glyph without ink.     *)
(* Every glyph with ink begins with a move, so the coordinates it emits    *)
(* span its ink.  values.sheer is SheerAmount (--sheer 1) and               *)
(* values.flatness is Flatness (--flatness 1); the curves of the font are  *)
(* flat, so that each is drawn as one line.                                *)
(***************************************************************************)
SheerAmount == 1
Flatness == 1

RectFile ==
    <<MissingGlyph,
      [unicode |-> 65, horiz_adv_x |-> 4, d |-> <<Line(1, 0, 2, 3), Line(2, 3, 3, 0)>>],
      GlyphElements[3],
      GlyphElements[4]>>

\* the font-face element of the file
FontFace == [ascent |-> 3, descent |-> 1]

RECURSIVE Font_parse_svg_font(_, _, _)
\* Font.parse_svg_font of gcode_font.py over the elements from the k-th on
Font_parse_svg_font(elements, k, self) ==
    IF k > Len(elements) THEN self
    ELSE Font_parse_svg_font(elements, k + 1,
                             Font_add_svg_glyph(self, elements[k], k = 1))

RECURSIVE TextFont_parse_svg_font(_, _, _)
\* Font.parse_svg_font of gcode_text.py over the elements from the k-th on
TextFont_parse_svg_font(elements, k, self) ==
    IF k > Len(elements) THEN self
    ELSE TextFont_parse_svg_font(elements, k + 1,
                                 TextFont_add_svg_glyph(self, elements[k], k = 1))

\* Font.set_svg_face of gcode_font.py
Font_set_svg_face(self, element) ==
    [glyphs |-> self.glyphs, ascent |-> element.ascent, descent |-> Abs(element.descent)]

\* Font.set_svg_face of gcode_text.py
TextFont_set_svg_face(self, element) ==
    [self EXCEPT !.ascent = element.ascent, !.descent = Abs(element.descent)]

RectFont == Font_parse_svg_font(RectFile, 1, Font_set_svg_face(Font_init, FontFace))
RectTextFont ==
    TextFont_parse_svg_font(RectFile, 1, TextFont_set_svg_face(TextFont_init, FontFace))

RectCodepoints == {65, 66, 321}
RectStrings == UNION {[1 .. n -> RectCodepoints] : n \in 0 .. MaxText}

Corners == {Point(1, 2)}
Rects == {Rect(c, Point(c.x + w, c.y + h)) : c \in Corners, w \in 0 .. MaxRect, h \in 0 .. MaxRect}

\* TextValues as the arguments leave it
TextValues(border, align, oblique, font_metrics, rect, mm) ==
    [sheer |-> SheerAmount, flatness |-> Flatness, tesselate |-> FALSE,
     font_metrics |-> font_metrics, align |-> align, border |-> border,
     oblique |-> oblique, rect |-> rect, mm |-> mm]

\* Device: y_invert, the curve template ("" by default) and whether a
\* settings line is configured
Device(y_invert, curve, settings) ==
    [curve |-> curve, y_invert |-> y_invert, settings |-> settings]

NoIntoRect == [op |-> "none"]

RectInit == intorect = NoIntoRect

\* text_into_rect(gcode, r, s, values) of gcode-text.py, and
\* gcode.text_into_rect(r, s) of gcode_text.py with the same font
TextIntoRect(r, s, values, device) ==
    /\ intorect = NoIntoRect
    /\ intorect' =
           [s |-> s, op |-> "text_into_rect", r |-> r, device |-> device,
            values |-> values,
            eff  |-> text_into_rect([device |-> device, values |-> values, font |-> font],
                                    r, s, values),
            teff |-> GCode_text_into_rect([device |-> device, values |-> values,
                                           font |-> tfont], r, s)]
    /\ UNCHANGED <<splineVars, matrixVars, offsetVars, fontVars, mainVars, svgVars, pipeVars, loopVars>>

NextRect ==
    \E r \in Rects, s \in RectStrings, border \in {0, MaxBorder},
       align \in {"left", "center", "right"}, oblique \in BOOLEAN,
       font_metrics \in BOOLEAN, y_invert \in BOOLEAN :
        TextIntoRect(r, s, TextValues(border, align, oblique, font_metrics, FALSE, FALSE),
                     Device(y_invert, "", FALSE))

(***************************************************************************)
(* main of gcode-text.py.  What the file system holds and what the         *)
(* arguments say are inputs of the step that reads them.  The output is    *)
(* kept as the kinds of the lines printed to it: "start", "settings",     *)
(* "mm" or "inch", one of "move", "draw" and "curve" for each call that  *)
(* reaches GCode, and "stop".                                              *)
(***************************************************************************)
\* mutant: every file is found
config_open_found(exists) == "file"

\* Values.config_open: the file, or FileNotFoundError
config_open(exists) == IF exists THEN "file" ELSE "FileNotFoundError"

\* load_template: what it raises.  A template that is a JSON list reaches
\* `value.rects = template`, and no name `value` exists.
load_template(template) ==
    IF config_open(template # "missing") # "file" THEN "FileNotFoundError"
    ELSE CASE template = "invalid"  -> "JSONDecodeError"
           [] template = "list"     -> "NameError"
           [] template = "badrects" -> "TypeError"
           [] OTHER                 -> "none"

\* Device.__init__ and Device.set_json_file: what they raise
Device_init(device_file) ==
    IF device_file = "none" THEN "none"
    ELSE IF config_open(device_file # "missing") # "file" THEN "FileNotFoundError"
    ELSE IF device_file = "invalid" THEN "JSONDecodeError"
    ELSE "none"

\* Font.svg_font: what it raises.  Font.parse_svg_font returns None for a
\* document without a font element, and nothing is raised.
svg_font(font_file) ==
    IF config_open(font_file # "missing") # "file" THEN "FileNotFoundError"
    ELSE IF font_file = "unparsable" THEN "SystemExit"
    ELSE "none"

\* mutant: both units directives are printed
GCode_start_both(self) ==
    <<"start">> \o (IF self.device.settings THEN <<"settings">> ELSE <<>>)
        \o <<"mm", "inch">>

\* GCode.start: the lines it prints
GCode_start(self) ==
    <<"start">> \o (IF self.device.settings THEN <<"settings">> ELSE <<>>)
        \o (IF self.values.mm THEN <<"mm">> ELSE <<"inch">>)

\* GCode.move, GCode.draw and GCode.curve: one line for each of the calls
GCode_lines(cs) == [i \in 1 .. Len(cs) |-> cs[i].op]

\* GCode.stop: the line it prints
GCode_stop == <<"stop">>

\* text_into_rect with gcode.font None: gcode.font.text_metrics raises
text_into_rect_None(r, values) ==
    Let(rect_check(r, values), LAMBDA c :
        IF c.report # "none"
        THEN Effect(c.report, "none", c.outline, FALSE, FALSE, <<>>, 1)
        ELSE Effect("none", "AttributeError", c.outline, FALSE, FALSE, <<>>, 1))

\* the curve template of a device that draws curves itself
CurveTemplate == "G05"

\* a rectangle with room for a border of 1, one that it leaves no height,
\* one that it leaves less than no height and one less than no width
MainRects ==
    {Rect(Point(0, 0), Point(3, 3)), Rect(Point(0, 0), Point(3, 2)),
     Rect(Point(0, 0), Point(3, 1)), Rect(Point(0, 0), Point(1, 3))}

\* the empty line, a glyph with ink and a curve, a glyph without ink
MainStrings == {<<>>, <<66>>, <<321>>}

NoPair == [op |-> "none"]

MainInit ==
    main = [pc |-> "template", n |-> 0, raised |-> "none",
            device |-> Device(TRUE, "", FALSE),
            values |-> TextValues(0, "center", FALSE, FALSE, FALSE, FALSE),
            template |-> "unread", device_file |-> "unread", font_file |-> "unread",
            output |-> <<>>, last |-> NoPair]

\* the run ends with the exception
Abort(exception) == [main EXCEPT !.pc = "aborted", !.raised = exception]

\* lines 274-275: if args.template: load_template(args.template, values)
LoadTemplate(template) ==
    /\ main.pc = "template"
    /\ main' = Let(IF template = "none" THEN "none" ELSE load_template(template),
                   LAMBDA raised :
                       IF raised # "none"
                       THEN [Abort(raised) EXCEPT !.template = template]
                       ELSE [main EXCEPT !.pc = "device", !.template = template])
    /\ UNCHANGED <<splineVars, matrixVars, offsetVars, fontVars, rectVars, svgVars, pipeVars, loopVars>>

\* lines 277-279: values.handle_args(args); device = Device(values).  The
\* Device is as the class declares it unless a device file is read.
NewDevice(values, device_file, device) ==
    /\ main.pc = "device"
    /\ main' = Let(Device_init(device_file), LAMBDA raised :
                   IF raised # "none"
                   THEN [Abort(raised) EXCEPT !.device_file = device_file,
                                              !.values = values]
                   ELSE [main EXCEPT !.pc = "font", !.device_file = device_file,
                                     !.values = values,
                                     !.device = IF device_file = "none"
                                                THEN Device(TRUE, "", FALSE)
                                                ELSE device])
    /\ UNCHANGED <<splineVars, matrixVars, offsetVars, fontVars, rectVars, svgVars, pipeVars, loopVars>>

\* line 281: font = Font.svg_font(values.font, values)
LoadFont(font_file) ==
    /\ main.pc = "font"
    /\ ~loaded
    /\ main' = Let(svg_font(font_file), LAMBDA raised :
                   IF raised # "none"
                   THEN [Abort(raised) EXCEPT !.font_file = font_file]
                   ELSE [main EXCEPT !.pc = "start", !.font_file = font_file])
    /\ IF font_file = "svg"
       THEN /\ font' = RectFont
            /\ file' = RectFile
            /\ loaded' = TRUE
            /\ UNCHANGED <<tfont, textop>>
       ELSE UNCHANGED fontVars
    /\ UNCHANGED <<splineVars, matrixVars, offsetVars, rectVars, svgVars, pipeVars, loopVars>>

\* lines 289-297: the generators and the GCode are made, and gcode.start()
GCodeStart ==
    /\ main.pc = "start"
    /\ main' = [main EXCEPT !.pc = "loop", !.output = @ \o GCode_start(main)]
    /\ UNCHANGED <<splineVars, matrixVars, offsetVars, fontVars, rectVars, svgVars, pipeVars, loopVars>>

\* lines 299-305, one turn of the loop: rect_gen ends or yields r, then
\* line_gen ends, fails to open a text file, or yields s, then
\* text_into_rect(gcode, rect, line, values)
NextPair(rect_ends, r, line, s) ==
    /\ main.pc = "loop"
    /\ (main.n = MaxItems) => (rect_ends \/ line # "yield")
    /\ main' =
           IF rect_ends \/ line = "StopIteration"
           THEN [main EXCEPT !.pc = "stop", !.last = NoPair]
           ELSE IF line # "yield" THEN [Abort(line) EXCEPT !.last = NoPair]
           ELSE Let(IF main.font_file = "nofont"
                    THEN text_into_rect_None(r, main.values)
                    ELSE text_into_rect([device |-> main.device, values |-> main.values,
                                         font |-> font], r, s, main.values),
                    LAMBDA e :
                        [main EXCEPT
                            !.pc = IF e.raised # "none" THEN "aborted" ELSE "loop",
                            !.raised = e.raised,
                            !.n = @ + 1,
                            !.output = @ \o GCode_lines(e.outline) \o GCode_lines(e.lines),
                            !.last = [s |-> s, op |-> "text_into_rect", r |-> r,
                                      before |-> Len(main.output), eff |-> e]])
    /\ UNCHANGED <<splineVars, matrixVars, offsetVars, fontVars, rectVars, svgVars, pipeVars, loopVars>>

\* line 307: gcode.stop()
GCodeStop ==
    /\ main.pc = "stop"
    /\ main' = [main EXCEPT !.pc = "done", !.output = @ \o GCode_stop]
    /\ UNCHANGED <<splineVars, matrixVars, offsetVars, fontVars, rectVars, svgVars, pipeVars, loopVars>>

NextMain ==
    \/ \E template \in {"none", "dict", "missing", "invalid", "list", "badrects"} :
           LoadTemplate(template)
    \/ \E border \in 0 .. 1, font_metrics \in BOOLEAN, rect \in BOOLEAN, mm \in BOOLEAN,
          device_file \in {"none", "json", "missing", "invalid"},
          curve \in {"", CurveTemplate}, settings \in BOOLEAN :
           NewDevice(TextValues(border, "center", FALSE, font_metrics, rect, mm),
                     device_file, Device(FALSE, curve, settings))
    \/ \E font_file \in {"svg", "missing", "unparsable", "nofont"} : LoadFont(font_file)
    \/ GCodeStart
    \/ \E r \in MainRects, s \in MainStrings : NextPair(FALSE, r, "yield", s)
    \/ \E r \in MainRects, line \in {"StopIteration", "FileNotFoundError"} :
           NextPair(FALSE, r, line, <<>>)
    \/ NextPair(TRUE, Rect(Point(0, 0), Point(0, 0)), "yield", <<>>)
    \/ GCodeStop

(***************************************************************************)
(* main of gcode-svg.py.  The parameter file and the stroke colours of the *)
(* paths are inputs.  Every path has the segments of SvgPath; a line of    *)
(* the output is kept as its kind and the extra parameters GCode printed   *)
(* with it.  The Device is as the class declares it: feed printed, speed   *)
(* not, no curve template.                                                 *)
(***************************************************************************)
Param(order, color, feed, speed, passes, name) ==
    [order |-> order, color |-> color, feed |-> feed, speed |-> speed,
     passes |-> passes, name |-> name]

\* Params.__init__ before the file is read
Params_init == [params |-> <<>>, default |-> Param(1, "default", 1, 1, 0, "default")]

RECURSIVE Params_set_table(_, _, _)
\* Params.set_params, key "params": self.params[color] = Param(...) for
\* the entries from the k-th on
Params_set_table(table, value, k) ==
    IF k > Len(value) THEN table
    ELSE Params_set_table(
             [c \in DOMAIN table \cup {value[k].color} |->
                  IF c = value[k].color THEN value[k] ELSE table[c]],
             value, k + 1)

\* Params.set_params
Params_set_params(self, json) ==
    [params  |-> Params_set_table(self.params, json.params, 1),
     default |-> IF json.has_default
                 THEN Param(json.default.order, "default", json.default.feed,
                            json.default.speed, json.default.passes, "default")
                 ELSE self.default]

\* mutant: a colour that is not in the table gets the built-in default
Params_get_builtin(self, color) ==
    IF color \notin DOMAIN self.params
    THEN [ret |-> Params_init.default, printed |-> <<color>>]
    ELSE [ret |-> self.params[color], printed |-> <<>>]

\* Params.get: the Param returned and what is printed
Params_get(self, color) ==
    IF color \notin DOMAIN self.params
    THEN [ret |-> self.default, printed |-> <<color>>]
    ELSE [ret |-> self.params[color], printed |-> <<>>]

\* key_svg_entry: e[1] of the (path, param) pair is the Param
key_svg_entry(e) == e.param.order

RECURSIVE sort_insert(_, _, _)
\* e put into the sorted list after every entry whose key is not greater
sort_insert(sorted, e, k) ==
    IF k > Len(sorted) \/ key_svg_entry(sorted[k]) > key_svg_entry(e)
    THEN SubSeq(sorted, 1, k - 1) \o <<e>> \o SubSeq(sorted, k, Len(sorted))
    ELSE sort_insert(sorted, e, k + 1)

RECURSIVE sort(_, _, _)
\* paths.sort(key = key_svg_entry), which is stable
sort(paths, k, sorted) ==
    IF k > Len(paths) THEN sorted
    ELSE sort(paths, k + 1, sort_insert(sorted, paths[k], 1))

\* GCode.extra_params
extra_params(self) ==
    (IF self.device.feed THEN <<self.values.feed>> ELSE <<>>)
        \o (IF self.device.speed THEN <<self.values.speed>> ELSE <<>>)

\* the line GCode.move or GCode.draw prints
SvgLine(self, c) ==
    [op |-> c.op, extra |-> IF c.op = "move" THEN <<>> ELSE extra_params(self)]

\* the segments of a path, as the calls path_to_gcode makes for them
SvgPath == <<MoveCall(0, 0), DrawCall(1, 0), DrawCall(1, 1)>>

RECURSIVE path_passes(_, _, _)
\* for i in range(param.passes): for seg in path: ...
path_passes(self, i, lines) ==
    IF i <= 0 THEN lines
    ELSE path_passes(self, i - 1,
                     lines \o [j \in 1 .. Len(SvgPath) |-> SvgLine(self, SvgPath[j])])

\* path_to_gcode: gcode.values after set_feed and set_speed, and the lines
path_to_gcode(gcode, param) ==
    Let([gcode EXCEPT !.values.feed = param.feed, !.values.speed = param.speed],
        LAMBDA self : [values |-> self.values, lines |-> path_passes(self, param.passes, <<>>)])

\* args.params is None
NoJson ==
    [params |-> <<>>, default |-> [order |-> 0, feed |-> 0, speed |-> 0, passes |-> 0],
     has_default |-> FALSE, given |-> FALSE]

\* the parameter files: none given, one without and one with a default
JsonFiles ==
    {NoJson,
     [params |-> <<Param(2, "red", 5, 6, 1, "cut")>>,
      default |-> [order |-> 0, feed |-> 0, speed |-> 0, passes |-> 0],
      has_default |-> FALSE, given |-> TRUE],
     [params |-> <<Param(2, "red", 5, 6, 1, "cut"), Param(4, "blue", 3, 4, 2, "mark")>>,
      default |-> [order |-> 3, feed |-> 7, speed |-> 8, passes |-> 2],
      has_default |-> TRUE, given |-> TRUE]}

Strokes == {"red", "blue", "green"}

SvgInit ==
    svg = [pc |-> "params",
           device |-> [settings |-> FALSE, feed |-> TRUE, speed |-> FALSE],
           values |-> [mm |-> FALSE, feed |-> 100, speed |-> 100],
           output |-> <<>>, params |-> Params_init, json |-> NoJson,
           printed |-> <<>>, paths |-> <<>>, done |-> <<>>]

\* line 166: params = Params(args.params, values)
NewParams(json) ==
    /\ svg.pc = "params"
    /\ svg' = [svg EXCEPT !.pc = "start", !.json = json,
                          !.params = IF json.given THEN Params_set_params(Params_init, json)
                                     ELSE Params_init]
    /\ UNCHANGED <<splineVars, matrixVars, offsetVars, fontVars, rectVars, mainVars, pipeVars, loopVars>>

\* lines 207-209: gcode.start()
SvgStart ==
    /\ svg.pc = "start"
    /\ svg' = [svg EXCEPT !.pc = "elements",
                          !.output = [i \in 1 .. Len(GCode_start(svg)) |->
                                         [op |-> GCode_start(svg)[i], extra |-> <<>>]]]
    /\ UNCHANGED <<splineVars, matrixVars, offsetVars, fontVars, rectVars, mainVars, pipeVars, loopVars>>

\* lines 213-221, for one element that is a path with the stroke
GetParam(stroke) ==
    /\ svg.pc = "elements"
    /\ Len(svg.paths) < MaxItems
    /\ svg' = Let(Params_get(svg.params, stroke), LAMBDA g :
                  [svg EXCEPT !.paths = Append(@, [param |-> g.ret, stroke |-> stroke]),
                              !.printed = @ \o g.printed])
    /\ UNCHANGED <<splineVars, matrixVars, offsetVars, fontVars, rectVars, mainVars, pipeVars, loopVars>>

\* line 223: paths.sort(key = key_svg_entry)
SortPaths ==
    /\ svg.pc = "elements"
    /\ svg' = [svg EXCEPT !.pc = "paths", !.paths = sort(@, 1, <<>>)]
    /\ UNCHANGED <<splineVars, matrixVars, offsetVars, fontVars, rectVars, mainVars, pipeVars, loopVars>>

\* lines 225-226, for the next path: path_to_gcode(gcode, p[0], p[1], matrix)
PathToGCode ==
    /\ svg.pc = "paths"
    /\ Len(svg.done) < Len(svg.paths)
    /\ svg' = Let(svg.paths[Len(svg.done) + 1], LAMBDA p :
              Let(path_to_gcode(svg, p.param), LAMBDA g :
                  [svg EXCEPT !.values = g.values,
                              !.output = @ \o g.lines,
                              !.done = Append(@, [path |-> p, lines |-> Len(g.lines),
                                                  first |-> Len(svg.output) + 1])]))
    /\ UNCHANGED <<splineVars, matrixVars, offsetVars, fontVars, rectVars, mainVars, pipeVars, loopVars>>

\* line 228: gcode.stop()
SvgStop ==
    /\ svg.pc = "paths"
    /\ Len(svg.done) = Len(svg.paths)
    /\ svg' = [svg EXCEPT !.pc = "done",
                          !.output = Append(@, [op |-> GCode_stop[1], extra |-> <<>>])]
    /\ UNCHANGED <<splineVars, matrixVars, offsetVars, fontVars, rectVars, mainVars, pipeVars, loopVars>>

NextSvg ==
    \/ \E json \in JsonFiles : NewParams(json)
    \/ SvgStart
    \/ \E stroke \in Strokes : GetParam(stroke)
    \/ SortPaths
    \/ PathToGCode
    \/ SvgStop

(***************************************************************************)
(* A chain of Draw stages.  text_path builds OffsetDraw -> MatrixDraw ->   *)
(* get_draw(), path_to_gcode builds MatrixDraw -> get_draw(), measure_ink  *)
(* gives Glyph.path a MeasureDraw, and get_draw() is a LineDraw in front   *)
(* of the GCode or the GCode itself.  A stage is [kind, has_last, obj]:    *)
(* obj the object, has_last whether its last_x and last_y have been        *)
(* assigned.  Only Draw.__init__ and MeasureDraw.__init__ assign them at   *)
(* construction: OffsetDraw, LineDraw, MatrixDraw and GCode define their   *)
(* own __init__ and none of them calls Draw.__init__.  Coordinates are     *)
(* multiples of 3 * Grid, so that the thirds of curve2 and the halvings of *)
(* de_casteljau are exact.                                                 *)
(***************************************************************************)
\* the number of calls made on one chain
MaxCalls == 3

Stage(kind, has_last, obj) == [kind |-> kind, has_last |-> has_last, obj |-> obj]

\* MatrixDraw.__init__
MatrixDraw_init(m) == [matrix |-> m, last_x |-> Unset, last_y |-> Unset]

\* GCode.__init__, as far as the cursor goes
GCode_init == [last_x |-> Unset, last_y |-> Unset]

\* the stage a constructor returns
NewStage(kind, m, tol) ==
    CASE kind = "draw"    -> Stage(kind, TRUE, Draw_init)
      [] kind = "measure" -> Stage(kind, TRUE, MeasureDraw_init(tol))
      [] kind = "offset"  -> Stage(kind, FALSE, OffsetDraw_init)
      [] kind = "matrix"  -> Stage(kind, FALSE, MatrixDraw_init(m))
      [] kind = "line"    -> Stage(kind, FALSE, LineDraw_init(tol))
      [] kind = "gcode"   -> Stage(kind, FALSE, GCode_init)

\* (self.last_x, self.last_y) of a stage that has them
Cursor(stage) == Point(stage.obj.last_x, stage.obj.last_y)

\* the end point of a move, draw or curve call
EndPoint(c) == Point(c.a[Len(c.a) - 1], c.a[Len(c.a)])

\* what a call on a chain leaves: the stages, the calls each stage has
\* received from the stage before it, and the exception that ended it
Outcome(stages, trace, raised) == [stages |-> stages, trace |-> trace, raised |-> raised]

\* the stage i after super().move, super().draw or super().curve
Draw_super(st, i, c) ==
    [st EXCEPT ![i] = Stage(@.kind, TRUE,
                            IF @.kind = "line"
                            THEN [Draw_call(@.obj, c) EXCEPT !.has_last = TRUE]
                            ELSE Draw_call(@.obj, c))]

RECURSIVE Stage_call(_, _, _, _)
RECURSIVE Stage_calls(_, _, _, _)
\* the calls cs made in order on stage i, up to the first that raises
Stage_calls(st, i, cs, tr) ==
    IF Len(cs) = 0 THEN Outcome(st, tr, "none")
    ELSE Let(Stage_call(st, i, Head(cs), tr), LAMBDA r :
             IF r.raised # "none" THEN r
             ELSE Stage_calls(r.stages, i, Tail(cs), r.trace))

\* move, draw or curve called on stage i of the chain st
Stage_call(st, i, c, tr) ==
    Let([tr EXCEPT ![i] = Append(@, c)], LAMBDA got :
    CASE st[i].kind \in {"draw", "gcode"} ->
            Outcome(Draw_super(st, i, c), got, "none")
      [] st[i].kind = "measure" ->
            Let(MeasureDraw_call(st[i].obj, c), LAMBDA e :
                IF e.raised THEN Outcome(st, got, "RecursionError")
                ELSE Outcome([st EXCEPT ![i].obj = e.self], got, "none"))
      [] st[i].kind = "offset" ->
            Let(Stage_call(st, i + 1, OffsetDraw_call(st[i].obj, c).chain[1], got),
                LAMBDA r : IF r.raised # "none" THEN r
                           ELSE Outcome(Draw_super(r.stages, i, c), r.trace, "none"))
      [] st[i].kind = "matrix" ->
            Let(Stage_call(st, i + 1, MatrixDraw_call(st[i].obj.matrix, c), got),
                LAMBDA r : IF r.raised # "none" THEN r
                           ELSE Outcome(Draw_super(r.stages, i, c), r.trace, "none"))
      [] st[i].kind = "line" /\ c.op # "curve" ->
            Let(Stage_call(st, i + 1, c, got),
                LAMBDA r : IF r.raised # "none" THEN r
                           ELSE Outcome(Draw_super(r.stages, i, c), r.trace, "none"))
      [] st[i].kind = "line" /\ c.op = "curve" ->
            IF ~st[i].has_last THEN Outcome(st, got, "AttributeError")
            ELSE Let(decompose(Spline(Cursor(st[i]), Point(c.a[1], c.a[2]),
                                      Point(c.a[3], c.a[4]), Point(c.a[5], c.a[6])),
                               st[i].obj.tolerance, 0),
                     LAMBDA ps :
                         IF ps.raised THEN Outcome(st, got, "RecursionError")
                         ELSE Let(Stage_calls(st, i + 1, LineDraw_draws(ps.ret), got),
                                  LAMBDA r :
                                      Outcome(Draw_super(r.stages, i,
                                                         DrawCall(ps.ret[Len(ps.ret)].x,
                                                                  ps.ret[Len(ps.ret)].y)),
                                              r.trace, "none"))))

\* mutant: the quadratic is converted as if it started at the origin
Draw_curve2_from_origin(st, i, x, y, x3, y3, tr) ==
    IF ~st[i].has_last THEN Outcome(st, tr, "AttributeError")
    ELSE Stage_call(st, i,
                    CurveCall((2 * x) \div 3, (2 * y) \div 3,
                              x3 + (2 * (x - x3)) \div 3,
                              y3 + (2 * (y - y3)) \div 3,
                              x3, y3),
                    tr)

\* Draw.curve2, which every stage inherits, called on stage i
Draw_curve2(st, i, x, y, x3, y3, tr) ==
    IF ~st[i].has_last THEN Outcome(st, tr, "AttributeError")
    ELSE Stage_call(st, i,
                    CurveCall(st[i].obj.last_x + (2 * (x - st[i].obj.last_x)) \div 3,
                              st[i].obj.last_y + (2 * (y - st[i].obj.last_y)) \div 3,
                              x3 + (2 * (x - x3)) \div 3,
                              y3 + (2 * (y - y3)) \div 3,
                              x3, y3),
                    tr)

\* the unit of the coordinates given to a chain
U == 3 * Grid

\* flatness 0, 1 and 4
PipeTolerances == {0, Grid, 4 * Grid}

\* GCode.get_draw: the stages it returns, the first being the one to call
get_draw(gcode) ==
    IF gcode.device.curve = "" \/ gcode.values.tesselate
    THEN <<"line", "gcode">> ELSE <<"gcode">>

\* the stages that text_path and path_to_gcode put in front of get_draw(),
\* get_draw() by itself, the MeasureDraw of measure_ink and a Draw
Chain(path, gcode) ==
    CASE path = "text_path"     -> <<"offset", "matrix">> \o get_draw(gcode)
      [] path = "path_to_gcode" -> <<"matrix">> \o get_draw(gcode)
      [] path = "get_draw"      -> get_draw(gcode)
      [] path = "measure_ink"   -> <<"measure">>
      [] path = "Draw"          -> <<"draw">>

Paths == {"text_path", "path_to_gcode", "get_draw", "measure_ink", "Draw"}

\* the GCode objects: the device's curve template, values.tesselate and
\* values.flatness
GCodes ==
    {[device |-> [curve |-> c], values |-> [tesselate |-> t, flatness |-> f]] :
        c \in {"", CurveTemplate}, t \in BOOLEAN, f \in PipeTolerances}

\* the identity, and a translation followed by a scale that inverts y
PipeMatrices == {Identity, scale(translate(Identity, U, 2 * U).ret, 2, -1).ret}

\* the outline of one instruction: a move, a line, a cubic that bends, a
\* cubic along a line, a quadratic
PipeInstruction(k) ==
    CASE k = 1 -> <<"m", U, 0>>
      [] k = 2 -> <<"l", U, U>>
      [] k = 3 -> <<"c", 0, U, U, U, U, 0>>
      [] k = 4 -> <<"c", U, U, U, U, 2 * U, 2 * U>>
      [] k = 5 -> <<"2", U, U, 0, U>>

PipeInstructions == 1 .. 5

\* the advance of the glyphs drawn
PipeWidth == 2 * U

NoInterp == [x1 |-> 0, y1 |-> 0, g |-> 0, on |-> FALSE, ops |-> 0, instr |-> <<>>]

NoChain == [path |-> "none"]

NoTrace(stages) == [i \in 1 .. Len(stages) |-> <<>>]

PipeInit ==
    pipe = [pc |-> "new", n |-> 0, call |-> NoDrawCall, raised |-> "none",
            before |-> <<>>, stages |-> <<>>, trace |-> <<>>, interp |-> NoInterp,
            p0 |-> Point(0, 0), made |-> NoChain]

\* the objects of the stages, each as its constructor returns it
NewStages(kinds, m, tol) == [i \in 1 .. Len(kinds) |-> NewStage(kinds[i], m, tol)]

\* the stages are constructed, the sink first
NewChain(path, gcode, m) ==
    /\ pipe.pc = "new"
    /\ pipe' = [pipe EXCEPT !.pc = "ready",
                            !.made = [path |-> path, gcode |-> gcode, matrix |-> m],
                            !.stages = NewStages(Chain(path, gcode), m, gcode.values.flatness),
                            !.before = NewStages(Chain(path, gcode), m, gcode.values.flatness),
                            !.trace = NoTrace(Chain(path, gcode))]
    /\ UNCHANGED <<splineVars, matrixVars, offsetVars, fontVars, rectVars, mainVars, svgVars, loopVars>>

\* what a call on the first stage leaves in pipe
Made(call, r) ==
    [pipe EXCEPT !.pc = IF r.raised # "none" THEN "raised" ELSE "ready",
                 !.stages = r.stages, !.n = @ + 1, !.call = call,
                 !.before = pipe.stages, !.trace = r.trace, !.raised = r.raised,
                 !.p0 = Point(pipe.interp.x1, pipe.interp.y1)]

\* move, draw or curve is called on the first stage
HeadCall(c) ==
    /\ pipe.pc = "ready"
    /\ pipe.interp.g = 0
    /\ pipe.made.path # "measure_ink"
    /\ pipe.n < MaxCalls
    /\ pipe' = Made(c, Stage_call(pipe.stages, 1, c, NoTrace(pipe.stages)))
    /\ UNCHANGED <<splineVars, matrixVars, offsetVars, fontVars, rectVars, mainVars, svgVars, loopVars>>

\* curve2 is called on the first stage
HeadCurve2(x, y, x3, y3) ==
    /\ pipe.pc = "ready"
    /\ pipe.interp.g = 0
    /\ pipe.made.path # "measure_ink"
    /\ pipe.n < MaxCalls
    /\ pipe' = Made([op |-> "curve2", a |-> <<x, y, x3, y3>>],
                    Draw_curve2(pipe.stages, 1, x, y, x3, y3, NoTrace(pipe.stages)))
    /\ UNCHANGED <<splineVars, matrixVars, offsetVars, fontVars, rectVars, mainVars, svgVars, loopVars>>

\* Glyph.path(calls) is entered, calls being the OffsetDraw of text_path or
\* the MeasureDraw of measure_ink: x1 = 0, y1 = 0
GlyphStart ==
    /\ pipe.pc = "ready"
    /\ ~pipe.interp.on
    /\ pipe.made.path \in {"text_path", "measure_ink"}
    /\ pipe.interp.g < (IF pipe.made.path = "text_path" THEN MaxLen ELSE 1)
    /\ pipe' = [pipe EXCEPT !.interp = [x1 |-> 0, y1 |-> 0, g |-> @.g + 1, on |-> TRUE,
                                        ops |-> 0, instr |-> <<>>]]
    /\ UNCHANGED <<splineVars, matrixVars, offsetVars, fontVars, rectVars, mainVars, svgVars, loopVars>>

\* one turn of the loop of Glyph.path: the instruction k is decoded and its
\* call is made; the last two operands read are x1 and y1
GlyphOp(k) ==
    /\ pipe.pc = "ready"
    /\ pipe.interp.on
    /\ pipe.n < MaxCalls
    /\ LET instr == PipeInstruction(k)
           call  == path_from(instr \o <<"e">>, 0, pipe.interp.x1, pipe.interp.y1,
                              <<>>).calls[1]
       IN  pipe' = [Made(call, Stage_call(pipe.stages, 1, call, NoTrace(pipe.stages)))
                       EXCEPT !.interp.x1 = at(instr, Len(instr) - 2),
                              !.interp.y1 = at(instr, Len(instr) - 1),
                              !.interp.ops = @ + 1,
                              !.interp.instr = instr]
    /\ UNCHANGED <<splineVars, matrixVars, offsetVars, fontVars, rectVars, mainVars, svgVars, loopVars>>

\* "e": Glyph.path returns; text_path steps its OffsetDraw by the width
GlyphEnd ==
    /\ pipe.pc = "ready"
    /\ pipe.interp.on
    /\ pipe' = [pipe EXCEPT !.interp.on = FALSE,
                            !.stages[1].obj =
                                IF pipe.stages[1].kind = "offset"
                                THEN OffsetDraw_step(@, PipeWidth, 0) ELSE @]
    /\ UNCHANGED <<splineVars, matrixVars, offsetVars, fontVars, rectVars, mainVars, svgVars, loopVars>>

NextPipe ==
    \/ \E path \in Paths, gcode \in GCodes, m \in PipeMatrices : NewChain(path, gcode, m)
    \/ \E k \in PipeInstructions \ {5} :
           HeadCall(path_from(PipeInstruction(k) \o <<"e">>, 0, 0, 0, <<>>).calls[1])
    \/ HeadCurve2(U, U, 0, U)
    \/ GlyphStart
    \/ \E k \in PipeInstructions : GlyphOp(k)
    \/ GlyphEnd

(***************************************************************************)
(* The main loop of gcode-text: get_rect and get_line are generators, and  *)
(* main pairs what they yield until one of them raises StopIteration.      *)
(* --start-x, --start-y, --value and --number are floats, for which        *)
(* x + 1 = x from 2^53 on; MaxFloat is that number in the model.           *)
(***************************************************************************)
\* the longest list of rects, lines of text and lines of files, the
\* largest --number and --columns
MaxSource == 2

MaxFloat == 3

\* x + 1 and x - 1 in floats
Incr(x) == IF x < MaxFloat THEN x + 1 ELSE x
Decr(x) == IF x > -MaxFloat THEN x - 1 ELSE x

\* finite_rects(values): values.template is not None
finite_rects(values) == values.template

\* the values after load_template and handle_args: template is whether
\* --template was given, has_rects whether the template was a dict with
\* "rects", rects their number, start whether start_x and start_y are set,
\* has_value whether --value was given, text and files the numbers of lines
LoopValues ==
    {[start |-> s, template |-> t, has_rects |-> h, rects |-> r, columns |-> c,
      has_value |-> v, number |-> n, text |-> x, files |-> f] :
        t \in BOOLEAN, h \in BOOLEAN, r \in 0 .. MaxSource, s \in BOOLEAN,
        c \in 0 .. MaxSource, v \in BOOLEAN, n \in 0 .. MaxSource,
        x \in 0 .. MaxSource, f \in {0, MaxSource}}

\* rects come from the template only, and without a list there is none
ValidLoopValues ==
    {v \in LoopValues : (v.has_rects => v.template) /\ (~v.has_rects => v.rects = 0)}

\* get_rect(values) and get_line(values) before the first next()
get_rect(values) == [y |-> 0, c |-> 0, i |-> 0]
get_line(values) == [v |-> 0, n |-> values.number, at |-> "value", i |-> 0]

\* next(rect_gen): what it does and the generator afterwards; "never" is
\* the while True of the grid with an empty range(values.columns)
next_rect(values, gen) ==
    IF values.has_rects
    THEN IF gen.i < values.rects
         THEN [out |-> "yield", rect |-> [y |-> 0, c |-> gen.i + 1, list |-> TRUE],
               gen |-> [gen EXCEPT !.i = @ + 1]]
         ELSE [out |-> "StopIteration", rect |-> <<>>, gen |-> gen]
    ELSE IF values.columns <= 0
         THEN [out |-> IF values.start THEN "never" ELSE "TypeError", rect |-> <<>>,
               gen |-> gen]
         ELSE IF ~values.start
              THEN [out |-> "TypeError", rect |-> <<>>, gen |-> gen]
              ELSE [out |-> "yield", rect |-> [y |-> gen.y, c |-> gen.c, list |-> FALSE],
                    gen |-> IF gen.c + 1 < values.columns
                            THEN [gen EXCEPT !.c = @ + 1]
                            ELSE [gen EXCEPT !.c = 0, !.y = Incr(@)]]

\* next(line_gen): the values, then the lines of the text, then the lines
\* of the files
next_line(values, gen) ==
    IF gen.at = "value" /\ values.has_value /\ (finite_rects(values) \/ gen.n > 0)
    THEN [out |-> "yield", line |-> [i |-> gen.v, of |-> "value"],
          gen |-> [gen EXCEPT !.n = Decr(@), !.v = Incr(@)]]
    ELSE IF gen.at \in {"value", "text"} /\ gen.i < values.text
    THEN [out |-> "yield", line |-> [i |-> gen.i + 1, of |-> "text"],
          gen |-> [gen EXCEPT !.at = "text", !.i = @ + 1]]
    ELSE LET k == IF gen.at = "file" THEN gen.i ELSE 0
         IN  IF k < values.files
             THEN [out |-> "yield", line |-> [i |-> k + 1, of |-> "file"],
                   gen |-> [gen EXCEPT !.at = "file", !.i = k + 1]]
             ELSE [out |-> "StopIteration", line |-> <<>>,
                   gen |-> [gen EXCEPT !.at = "file", !.i = k]]

NoLoopValues == [template |-> FALSE]

NoGen == [i |-> 0]

LoopInit ==
    loop = [pc |-> "new", values |-> NoLoopValues, rect |-> <<>>, line |-> <<>>,
            rect_gen |-> NoGen, line_gen |-> NoGen]

\* rect_gen = get_rect(values); line_gen = get_line(values)
LoopStart(values) ==
    /\ loop.pc = "new"
    /\ loop' = [loop EXCEPT !.pc = "rect", !.values = values,
                            !.rect_gen = get_rect(values), !.line_gen = get_line(values)]
    /\ UNCHANGED <<splineVars, matrixVars, offsetVars, fontVars, rectVars, mainVars, svgVars, pipeVars>>

\* rect = next(rect_gen); StopIteration breaks the loop
TakeRect ==
    /\ loop.pc = "rect"
    /\ loop' = Let(next_rect(loop.values, loop.rect_gen),
                   LAMBDA r :
                       [loop EXCEPT !.pc = CASE r.out = "yield" -> "line"
                                            [] r.out = "StopIteration" -> "done"
                                            [] r.out = "TypeError" -> "raised"
                                            [] r.out = "never" -> "get_rect",
                                    !.rect = r.rect, !.rect_gen = r.gen])
    /\ UNCHANGED <<splineVars, matrixVars, offsetVars, fontVars, rectVars, mainVars, svgVars, pipeVars>>

\* the while True of get_rect when range(values.columns) is empty: the for
\* loop yields nothing
GridFor ==
    /\ loop.pc = "get_rect"
    /\ loop' = [loop EXCEPT !.pc = "grid_row"]
    /\ UNCHANGED <<splineVars, matrixVars, offsetVars, fontVars, rectVars, mainVars, svgVars, pipeVars>>

\* y += values.delta_y, and the while True is at its next turn
GridRow ==
    /\ loop.pc = "grid_row"
    /\ loop' = [loop EXCEPT !.pc = "get_rect", !.rect_gen.y = Incr(@)]
    /\ UNCHANGED <<splineVars, matrixVars, offsetVars, fontVars, rectVars, mainVars, svgVars, pipeVars>>

\* line = next(line_gen); text_into_rect(gcode, rect, line, values);
\* StopIteration breaks the loop
TakeLine ==
    /\ loop.pc = "line"
    /\ loop' = Let(next_line(loop.values, loop.line_gen),
                   LAMBDA l :
                       [loop EXCEPT !.pc = IF l.out = "yield" THEN "rect" ELSE "done",
                                    !.line = l.line, !.line_gen = l.gen])
    /\ UNCHANGED <<splineVars, matrixVars, offsetVars, fontVars, rectVars, mainVars, svgVars, pipeVars>>

NextLoop ==
    \/ \E values \in ValidLoopValues : LoopStart(values)
    \/ TakeRect
    \/ GridFor
    \/ GridRow
    \/ TakeLine

RestInit == RectInit /\ MainInit /\ SvgInit /\ PipeInit /\ LoopInit

ZeroSpline == Spline(Point(0, 0), Point(0, 0), Point(0, 0), Point(0, 0))

InitSpline == SplineInit(Splines) /\ MatrixInit /\ OffsetInit /\ FontInit /\ RestInit
InitMatrix == SplineInit({ZeroSpline}) /\ MatrixInit /\ OffsetInit /\ FontInit /\ RestInit
InitOffset == SplineInit({ZeroSpline}) /\ MatrixInit /\ OffsetInit /\ FontInit /\ RestInit
InitFont   == SplineInit({ZeroSpline}) /\ MatrixInit /\ OffsetInit /\ FontInit /\ RestInit

SpecMatrix == InitMatrix /\ [][NextMatrix]_vars
SpecOffset == InitOffset /\ [][NextOffset]_vars
SpecFont   == InitFont /\ [][NextFont]_vars

\* the font is loaded when text_into_rect is called
InitRect ==
    /\ SplineInit({ZeroSpline}) /\ MatrixInit /\ OffsetInit
    /\ font = RectFont
    /\ tfont = RectTextFont
    /\ loaded = TRUE
    /\ file = RectFile
    /\ textop = NoTextOp
    /\ RestInit

SpecRect == InitRect /\ [][NextRect]_vars

InitMain == SplineInit({ZeroSpline}) /\ MatrixInit /\ OffsetInit /\ FontInit /\ RestInit
SpecMain == InitMain /\ [][NextMain]_vars

InitSvg == SplineInit({ZeroSpline}) /\ MatrixInit /\ OffsetInit /\ FontInit /\ RestInit
SpecSvg == InitSvg /\ [][NextSvg]_vars

InitPipe == SplineInit({ZeroSpline}) /\ MatrixInit /\ OffsetInit /\ FontInit /\ RestInit
SpecPipe == InitPipe /\ [][NextPipe]_vars

InitLoop == SplineInit({ZeroSpline}) /\ MatrixInit /\ OffsetInit /\ FontInit /\ RestInit
SpecLoop == InitLoop /\ [][NextLoop]_vars

\* main runs on: every next() that returns does return, and the while True
\* of get_rect takes its next turn
SpecLoopLive ==
    /\ SpecLoop
    /\ WF_vars(TakeRect)
    /\ WF_vars(GridFor)
    /\ WF_vars(GridRow)
    /\ WF_vars(TakeLine)

(***************************************************************************)
(* Claims about Matrix                                                     *)
(***************************************************************************)
\* the elementary matrix of a builder call
Elementary(call) ==
    CASE call.op = "translate" -> translation(call.a, call.b)
      [] call.op = "scale"     -> scaling(call.a, call.b)
      [] call.op = "rotate"    -> rotation(call.a)
      [] call.op = "sheer"     -> sheering(call.a, call.b)

\* the arguments for which the elementary matrix is the identity
IsIdentityCall(call) ==
    \/ call.op = "translate" /\ call.a = 0 /\ call.b = 0
    \/ call.op = "scale" /\ call.a = 1 /\ call.b = 1
    \/ call.op = "rotate" /\ call.a = 0
    \/ call.op = "sheer" /\ call.a = 0 /\ call.b = 0

TestPoints == {Point(x, y) : x \in Args, y \in Args}

\* C4: every builder applies the new operation in M's existing frame:
\* M.op(args).point(p) = M.point(Elementary(args).point(p)) for every p.
C4_BuildersComposeWithPoint ==
    mcall.op # "none" =>
        \A p \in TestPoints :
            point(matrix, p) = point(mbefore, point(Elementary(mcall), p))

\* C5: translate(0,0), scale(1,1), rotate(0) and sheer(0,0) return a Matrix
\* with the six coefficients of M, and no builder changes the Matrix it is
\* called on.
C5_IdentityBuilders ==
    mcall.op # "none" =>
        /\ mself = mbefore
        /\ IsIdentityCall(mcall) => matrix = mbefore

\* C5 witness: an identity builder was called on a Matrix that translates or
\* scales.
C5_Witness ==
    /\ IsIdentityCall(mcall)
    /\ mbefore # Identity
    /\ mbefore.x0 # 0 \/ mbefore.xx # 1

(***************************************************************************)
(* Claims about OffsetDraw                                                 *)
(***************************************************************************)
RECURSIVE Shifted(_, _, _)
\* the coordinates a, each pair shifted by (dx, dy)
Shifted(a, dx, dy) ==
    IF a = <<>> THEN <<>>
    ELSE <<a[1] + dx, a[2] + dy>> \o Shifted(Tail(Tail(a)), dx, dy)

\* C6: after any sequence of step(dx_i, dy_i), every move, draw or curve
\* reaches the inner sink with each coordinate pair shifted by the summed
\* steps (sum of dx_i, sum of dy_i).
C6_ForwardedShiftedBySum ==
    issued.call # NoDrawCall =>
        chain.received =
            <<[op |-> issued.call.op, a |-> Shifted(issued.call.a, issued.dx, issued.dy)]>>

\* What the stage does: x is shifted by the summed dx, y is not shifted.
OffsetShiftsXOnly ==
    issued.call # NoDrawCall =>
        chain.received =
            <<[op |-> issued.call.op, a |-> Shifted(issued.call.a, issued.dx, 0)]>>

SpecSpline == InitSpline /\ [][NextSpline]_vars

\* the splines that start at the origin; de_casteljau and error_squared
\* commute with translation
OriginSplines == {s \in Splines : s.a = Point(0, 0)}

InitSplineLive ==
    SplineInit(OriginSplines) /\ MatrixInit /\ OffsetInit /\ FontInit /\ RestInit

\* a running decompose always takes its next step
SpecSplineLive ==
    /\ InitSplineLive
    /\ [][NextSpline]_vars
    /\ WF_vars(Leaf)
    /\ WF_vars(Split)
    /\ WF_vars(Overflow)

(***************************************************************************)
(* Claims about Spline.decompose                                           *)
(***************************************************************************)
RECURSIVE IsSubseq(_, _)
\* p occurs in q, in the same relative order
IsSubseq(p, q) ==
    IF p = <<>> THEN TRUE
    ELSE IF q = <<>> THEN FALSE
    ELSE IF Head(p) = Head(q) THEN IsSubseq(Tail(p), Tail(q))
    ELSE IsSubseq(p, Tail(q))

\* C1: for every cubic and every tolerance t > 0, decompose(t) terminates:
\* every running decompose with a positive tolerance eventually returns.
C1_PositiveToleranceTerminates ==
    [](pc = "run" /\ tolerance > 0 => <>(pc = "done"))

\* C1 witness: a decompose with a positive tolerance that had to split has
\* returned.
C1_Witness == pc = "done" /\ tolerance > 0 /\ Len(ret) > 2

\* C2: decompose(0) terminates for every cubic, also when error_squared() > 0:
\* a zero tolerance never runs the recursion out of its depth.
C2_ZeroToleranceTerminates == ~(tolerance = 0 /\ pc = "RecursionError")

\* With a zero tolerance, below a spline that is not flat no spline is flat:
\* no leaf is ever reached, whatever the depth allowed.
ZeroToleranceNeverFlattens ==
    (pc = "run" /\ tolerance = 0 /\ error_squared(spline) > 0) =>
        /\ ret = <<>>
        /\ \A i \in 1 .. Len(stack) : error_squared(stack[i].s) > 0

\* C3: for every cubic and every t > 0, decompose(t/4) is at least as fine as
\* decompose(t): the points of decompose(t) occur in decompose(t/4) in the
\* same relative order, and decompose(t/4) is at least as long.
C3_TighterIsFiner ==
    (pc = "done" /\ prev # NoResult /\ prev.tolerance > 0) =>
        /\ tolerance * 4 = prev.tolerance
        /\ IsSubseq(prev.ret, ret)
        /\ Len(ret) >= Len(prev.ret)

\* C3 witness: the tighter tolerance gave strictly more points than a looser
\* one that had itself split.
C3_Witness ==
    /\ pc = "done"
    /\ prev # NoResult
    /\ prev.tolerance > 0
    /\ Len(prev.ret) > 1
    /\ Len(ret) > Len(prev.ret)

(***************************************************************************)
(* Claims about Font                                                       *)
(***************************************************************************)
\* the elements of the file with the codepoint c, by position
ElementsOf(c) == {i \in 2 .. Len(file) : file[i].unicode = c}

\* the element whose glyph the font holds for c: the last one read with that
\* codepoint, the missing-glyph element when there is none
ElementFor(c) ==
    IF ElementsOf(c) = {} THEN file[1]
    ELSE file[CHOOSE i \in ElementsOf(c) : \A j \in ElementsOf(c) : j <= i]

\* the codepoint of that glyph
CodepointFor(c) == IF ElementsOf(c) = {} THEN 0 ELSE c

RECURSIVE Sum(_, _)
\* w[1] + ... + w[n]
Sum(w, n) == IF n = 0 THEN 0 ELSE Sum(w, n - 1) + w[n]

\* the calls cs, every x shifted by dx
ShiftX(cs, dx) == [i \in 1 .. Len(cs) |-> [op |-> cs[i].op, a |-> Shifted(cs[i].a, dx, 0)]]

RECURSIVE Laid(_, _, _)
\* the programs of the first k glyphs, each shifted by the widths before it
Laid(programs, widths, k) ==
    IF k = 0 THEN <<>>
    ELSE Laid(programs, widths, k - 1) \o ShiftX(programs[k], Sum(widths, k - 1))

\* per glyph of s, the calls of its program and its advance, in gcode_font.py
Programs(s) == [k \in 1 .. Len(s) |-> Glyph_path(Font_glyph(font, s[k]).outline).calls]
Widths(s)   == [k \in 1 .. Len(s) |-> Font_glyph(font, s[k]).metrics.width]

\* the same in gcode_text.py
TextPrograms(s) ==
    [k \in 1 .. Len(s) |->
        outline_path(tfont.outlines, glyph_draw(tfont, glyph_offset(tfont, s[k]))).calls]
TextWidths(s) == [k \in 1 .. Len(s) |-> glyph_width(tfont, glyph_offset(tfont, s[k]))]

\* C7: Font.text_path(s, calls) delivers to calls every call of the k-th
\* glyph's program with x shifted by the sum of the advances of glyphs
\* 0..k-1, glyph after glyph, and returns the sum of all advances; so in
\* both implementations.
C7_TextPathShiftsByAdvances ==
    textop.op = "text_path" =>
        /\ textop.path.chain = Laid(Programs(textop.s), Widths(textop.s), Len(textop.s))
        /\ textop.path.ret = Sum(Widths(textop.s), Len(textop.s))
        /\ textop.tpath.chain
               = Laid(TextPrograms(textop.s), TextWidths(textop.s), Len(textop.s))
        /\ textop.tpath.ret = Sum(TextWidths(textop.s), Len(textop.s))

\* C7 witness: a string of two different glyphs of the file was drawn, and
\* the second glyph has calls to shift.
C7_Witness ==
    /\ textop.op = "text_path"
    /\ Len(textop.s) = 2
    /\ textop.s[1] # textop.s[2]
    /\ ElementsOf(textop.s[1]) # {}
    /\ ElementsOf(textop.s[2]) # {}
    /\ Programs(textop.s)[2] # <<>>
    /\ textop.path.ret > Widths(textop.s)[1]

SetMin(S) == CHOOSE m \in S : \A n \in S : m <= n
SetMax(S) == CHOOSE m \in S : \A n \in S : n <= m

\* the extremes of the metrics ms of the glyphs of a string, bearings and
\* widths shifted by the advances before the glyph
Extremes(ms) ==
    LET K    == 1 .. Len(ms)
        w    == [k \in K |-> ms[k].width]
        X(k) == Sum(w, k - 1)
    IN  TextMetrics(SetMin({ms[k].left_side_bearing + X(k) : k \in K}),
                    SetMax({ms[k].right_side_bearing + X(k) : k \in K}),
                    SetMax({ms[k].width + X(k) : k \in K}),
                    SetMax({ms[k].ascent : k \in K}),
                    SetMax({ms[k].descent : k \in K}))

\* per glyph of s, the metrics the glyph had when text_metrics was called
MetricsBefore(s) ==
    [k \in 1 .. Len(s) |->
        IF s[k] \in DOMAIN textop.before THEN textop.before[s[k]] ELSE textop.before[0]]

\* the same in gcode_text.py
TextMetricsOf(s) == [k \in 1 .. Len(s) |-> TextMetrics_copy(glyph_metrics(tfont, s[k]))]

\* C8: for a non-empty string, text_metrics starts from the first glyph's
\* own metrics and folds in every later glyph: the minimum of the shifted
\* left bearings, the maxima of the shifted right bearings and shifted
\* widths, the maxima of the ascents and descents unshifted; both
\* implementations compute this, and the call changes no glyph's metrics.
C8_TextMetricsFoldsExtremes ==
    (textop.op = "text_metrics" /\ Len(textop.s) > 0) =>
        /\ textop.metrics = Extremes(MetricsBefore(textop.s))
        /\ TextMetrics_copy(textop.tmetrics) = Extremes(TextMetricsOf(textop.s))
        /\ Len(textop.s) = 1 => textop.metrics = MetricsBefore(textop.s)[1]
        /\ DOMAIN font.glyphs = DOMAIN textop.before
        /\ \A c \in DOMAIN font.glyphs : font.glyphs[c].metrics = textop.before[c]

\* C8 witness: a string was measured whose second glyph lowers the left
\* bearing and raises the descent of the first.
C8_Witness ==
    /\ textop.op = "text_metrics"
    /\ Len(textop.s) = 2
    /\ textop.metrics.descent > MetricsBefore(textop.s)[1].descent
    /\ textop.metrics.right_side_bearing > MetricsBefore(textop.s)[1].right_side_bearing
    /\ textop.metrics.ascent = MetricsBefore(textop.s)[1].ascent

\* C9 as stated: for every two-glyph string, text_metrics(s).width is the
\* first glyph's advance plus the second glyph's right bearing, and
\* left_side_bearing is the minimum of the two glyphs' left bearings.
C9_TwoGlyphWidthAndBearing ==
    (textop.op = "text_metrics" /\ Len(textop.s) = 2) =>
        LET ms == MetricsBefore(textop.s)
        IN  /\ textop.metrics.width = ms[1].width + ms[2].right_side_bearing
            /\ textop.metrics.left_side_bearing
                   = Min(ms[1].left_side_bearing, ms[2].left_side_bearing)

\* C9 amended: for every two-glyph string, text_metrics(s).width is the
\* larger of the first glyph's advance and the sum of both advances, and
\* left_side_bearing is the minimum of the first glyph's left bearing and the
\* second glyph's left bearing shifted by the first glyph's advance.
C9_TwoGlyphAdvancesAndShiftedBearing ==
    (textop.op = "text_metrics" /\ Len(textop.s) = 2) =>
        LET ms == MetricsBefore(textop.s)
        IN  /\ textop.metrics.width = Max(ms[1].width, ms[1].width + ms[2].width)
            /\ textop.metrics.left_side_bearing
                   = Min(ms[1].left_side_bearing, ms[2].left_side_bearing + ms[1].width)

\* C9 witness: a two-glyph string was measured whose second glyph has the
\* smaller left bearing and a right bearing other than its advance.
C9_Witness ==
    /\ textop.op = "text_metrics"
    /\ Len(textop.s) = 2
    /\ MetricsBefore(textop.s)[2].left_side_bearing
           < MetricsBefore(textop.s)[1].left_side_bearing
    /\ MetricsBefore(textop.s)[2].right_side_bearing # MetricsBefore(textop.s)[2].width

\* the number of operands of an instruction, and the point it ends at
Operands(k) == Len(Instruction(k)) - 1
EndOf(ks, j) ==
    IF j = 0 THEN Point(0, 0)
    ELSE Point(Instruction(ks[j])[Operands(ks[j])], Instruction(ks[j])[Operands(ks[j]) + 1])

\* the Draw call of the j-th instruction of ks
CallOf(ks, j) ==
    LET a   == Tail(Instruction(ks[j]))
        cur == EndOf(ks, j - 1)
    IN  CASE ks[j] = 1 -> MoveCall(a[1], a[2])
          [] ks[j] = 2 -> DrawCall(a[1], a[2])
          [] ks[j] = 3 -> CurveCall(a[1], a[2], a[3], a[4], a[5], a[6])
          [] ks[j] = 4 -> CurveCall(cur.x + (2 * (a[1] - cur.x)) \div 3,
                                    cur.y + (2 * (a[2] - cur.y)) \div 3,
                                    a[3] + (2 * (a[1] - a[3])) \div 3,
                                    a[4] + (2 * (a[2] - a[4])) \div 3,
                                    a[3], a[4])

\* the positions of ks that hold the unknown opcode
Unknown(ks) == {j \in 1 .. Len(ks) : ks[j] = 5}

\* the number of instructions of ks before the first unknown opcode
Known(ks) == IF Unknown(ks) = {} THEN Len(ks) ELSE SetMin(Unknown(ks)) - 1

\* C11: the interpreter makes one Draw call per instruction, from exactly
\* the instruction's own operands (2 for m, 2 for l, 6 for c, 4 for 2), up to
\* "e" or the first unknown opcode; on an unknown opcode it raises ValueError
\* having made no call for it, and text_path of both implementations ends in
\* that ValueError after forwarding the calls made before it.
C11_InterpreterAritiesAndValueError ==
    textop.op = "path" =>
        LET ks       == textop.program
            expected == [j \in 1 .. Known(ks) |-> CallOf(ks, j)]
        IN  /\ textop.path.calls = expected
            /\ textop.path.raised = (Unknown(ks) # {})
            /\ textop.fpath.chain = expected
            /\ textop.fpath.raised = (Unknown(ks) # {})
            /\ textop.tpath.chain = expected
            /\ textop.tpath.raised = (Unknown(ks) # {})

\* C11 witness: a program with an instruction before an unknown opcode was
\* interpreted, and ended in ValueError.
C11_Witness ==
    /\ textop.op = "path"
    /\ Len(textop.program) = 2
    /\ textop.program[1] = 4
    /\ textop.program[2] = 5
    /\ textop.path.raised
    /\ Len(textop.path.calls) = 1

(***************************************************************************)
(* text_into_rect                                                          *)
(***************************************************************************)
\* the x (odd) or the y coordinates of the calls cs
CoordsAt(cs, odd) ==
    UNION {{cs[i].a[j] : j \in {k \in 1 .. Len(cs[i].a) : (k % 2 = 1) = odd}} :
              i \in 1 .. Len(cs)}

\* the available box of a call (the rectangle inset by the border), in the
\* unit of the rectangle
BoxLeft(c)   == c.r.top_left.x + c.values.border
BoxRight(c)  == c.r.bottom_right.x - c.values.border
BoxTop(c)    == c.r.top_left.y + c.values.border
BoxBottom(c) == c.r.bottom_right.y - c.values.border

\* the two implementations' effects of the call
Effects(c) == {c.eff, c.teff}

\* the string was rendered: lines reached GCode and no exception ended it
Rendered(e) == e.drawn /\ e.raised = "none" /\ Len(e.lines) > 0

\* C13: text_into_rect never raises ZeroDivisionError, and a rectangle whose
\* available width or height is exactly zero is reported and skipped.
C13_ZeroExtentRejectedBeforeDividing ==
    intorect.op = "text_into_rect" =>
        \A e \in Effects(intorect) :
            /\ e.raised # "ZeroDivisionError"
            /\ (BoxLeft(intorect) = BoxRight(intorect)
                    \/ BoxTop(intorect) = BoxBottom(intorect))
                   => (e.report # "none" /\ ~e.drawn)

\* what the code does with zero extents: an available height of zero
\* divides by zero unless the text is empty, and an available width of zero
\* is rendered at scale 0
ZeroExtentOutcomes ==
    intorect.op = "text_into_rect" =>
        \A e \in Effects(intorect) :
            /\ e.raised = "ZeroDivisionError"
                   <=> (/\ BoxTop(intorect) = BoxBottom(intorect)
                        /\ BoxLeft(intorect) <= BoxRight(intorect)
                        /\ e.report = "none")
            /\ (BoxLeft(intorect) = BoxRight(intorect)
                    /\ BoxTop(intorect) < BoxBottom(intorect) /\ e.report = "none")
                   => e.drawn

\* C14: without oblique and with glyph metrics, the ink of the rendered
\* string has its left edge at the left edge of the available box when
\* align is left, its right edge at the box's right edge when align is
\* right, and is centred in the box when align is center.
C14_InkAlignedInBox ==
    intorect.op = "text_into_rect" =>
        \A e \in Effects(intorect) :
            (Rendered(e) /\ ~intorect.values.oblique /\ ~intorect.values.font_metrics) =>
                LET xs == CoordsAt(e.lines, TRUE)
                IN  CASE intorect.values.align = "left" ->
                             SetMin(xs) = e.den * BoxLeft(intorect)
                      [] intorect.values.align = "right" ->
                             SetMax(xs) = e.den * BoxRight(intorect)
                      [] intorect.values.align = "center" ->
                             SetMin(xs) + SetMax(xs)
                                 = e.den * (BoxLeft(intorect) + BoxRight(intorect))

\* the same for align left and center only
LeftAndCenterAligned ==
    intorect.op = "text_into_rect" =>
        \A e \in Effects(intorect) :
            (Rendered(e) /\ ~intorect.values.oblique /\ ~intorect.values.font_metrics
                 /\ intorect.values.align # "right") =>
                LET xs == CoordsAt(e.lines, TRUE)
                IN  IF intorect.values.align = "left"
                    THEN SetMin(xs) = e.den * BoxLeft(intorect)
                    ELSE SetMin(xs) + SetMax(xs)
                             = e.den * (BoxLeft(intorect) + BoxRight(intorect))

\* every coordinate of the lines of e lies in the available box of c
InsideBox(c, e) ==
    /\ \A x \in CoordsAt(e.lines, TRUE) :
           e.den * BoxLeft(c) <= x /\ x <= e.den * BoxRight(c)
    /\ \A y \in CoordsAt(e.lines, FALSE) :
           e.den * BoxTop(c) <= y /\ y <= e.den * BoxBottom(c)

InkCentred(c, e) ==
    /\ SetMin(CoordsAt(e.lines, TRUE)) + SetMax(CoordsAt(e.lines, TRUE))
           = e.den * (c.r.top_left.x + c.r.bottom_right.x)
    /\ SetMin(CoordsAt(e.lines, FALSE)) + SetMax(CoordsAt(e.lines, FALSE))
           = e.den * (c.r.top_left.y + c.r.bottom_right.y)

\* a single glyph centred with border 0 in a square rectangle, measured by
\* its glyph metrics, without oblique
CentredInSquare(c, e) ==
    /\ Rendered(e)
    /\ Len(c.s) = 1
    /\ c.values.align = "center"
    /\ c.values.border = 0
    /\ ~c.values.oblique
    /\ ~c.values.font_metrics
    /\ c.r.bottom_right.x - c.r.top_left.x = c.r.bottom_right.y - c.r.top_left.y

\* C16: with align center and border 0 in a square rectangle the centre of
\* the glyph's ink is mapped to the centre of the rectangle in x and in y,
\* for either Y orientation of the device and whatever the glyph's descent.
C16_InkCentreAtRectCentre ==
    intorect.op = "text_into_rect" =>
        \A e \in Effects(intorect) :
            CentredInSquare(intorect, e) => InkCentred(intorect, e)

\* the same, except on a Y-inverted device for a glyph with descent
CentredUnlessInvertedWithDescent ==
    intorect.op = "text_into_rect" =>
        \A e \in Effects(intorect) :
            (CentredInSquare(intorect, e)
                 /\ ~(intorect.device.y_invert
                          /\ Font_glyph(font, intorect.s[1]).metrics.descent # 0)) =>
                InkCentred(intorect, e)

\* the list measure_ink returns is the stored metrics of the glyph
SameInk(t) ==
    /\ ~t.measure.raised
    /\ t.measure.measure[1] = t.metrics.left_side_bearing
    /\ t.measure.measure[2] = t.metrics.right_side_bearing
    /\ t.measure.measure[4] = t.metrics.ascent
    /\ t.measure.measure[5] = t.metrics.descent

\* C17: for every glyph of the built-in font, measure_ink of its outline
\* gives the left and right bearing, the ascent and the descent that are
\* stored for it, for the glyphs without ink as for the others.
C17_BuiltinMetricsRoundTrip ==
    textop.op = "measure_ink" => SameInk(textop)

\* what the table has: the glyphs of the excerpt that have ink are stored
\* with the box of their ink; the space is stored with 4 for both bearings
\* and is measured as 0, 0, 0, 0
BuiltinInkedRoundTrip ==
    textop.op = "measure_ink" =>
        IF textop.ucs4 = 32
        THEN /\ textop.measure.measure = <<0, 0, 0, 0, 0>>
             /\ textop.metrics.left_side_bearing = 4
             /\ textop.metrics.right_side_bearing = 4
        ELSE SameInk(textop)

(***************************************************************************)
(* Claims about main of gcode-text.py                                      *)
(***************************************************************************)
\* the border leaves less than no width or height in the rectangle
NegativeBox(c) ==
    \/ c.r.bottom_right.x - c.r.top_left.x - main.values.border * 2 < 0
    \/ c.r.bottom_right.y - c.r.top_left.y - main.values.border * 2 < 0

\* the ink of the string, by the metrics of its glyphs, has no width or no
\* height
ZeroInk(c) ==
    Let(Font_text_metrics(font, c.s).ret, LAMBDA t :
        t.right_side_bearing - t.left_side_bearing = 0 \/ t.ascent + t.descent = 0)

\* text_into_rect printed a report and returned: text_path was not called,
\* no line was written for the string, and the loop goes on
Skipped(c) ==
    /\ c.eff.report # "none"
    /\ c.eff.raised = "none"
    /\ ~c.eff.drawn
    /\ c.eff.lines = <<>>
    /\ Len(main.output) = c.before + Len(c.eff.outline)
    /\ main.pc = "loop"

Motion == {"move", "draw", "curve"}

\* the number of lines GCode.start prints
StartLines == IF main.device.settings THEN 3 ELSE 2

\* the output begins with the preamble, the settings line if the device
\* has one, and the units directive of values.mm
Started ==
    /\ Len(main.output) >= StartLines
    /\ main.output[1] = "start"
    /\ main.device.settings => main.output[2] = "settings"
    /\ main.output[StartLines] = IF main.values.mm THEN "mm" ELSE "inch"

\* after them, there are motion lines only, up to the k-th line
MotionOnly(k) == \A i \in StartLines + 1 .. k : main.output[i] \in Motion

\* the lines written for the last pair are those of the calls that reached
\* GCode, in their order
LinePerCall ==
    main.last.op = "text_into_rect" =>
        Let(main.last.eff.outline \o main.last.eff.lines, LAMBDA cs :
            /\ Len(main.output) >= main.last.before + Len(cs)
            /\ \A i \in 1 .. Len(cs) : main.output[main.last.before + i] = cs[i].op)

\* the output is the whole stream: the trailer is its last line, once
Complete ==
    /\ Started
    /\ MotionOnly(Len(main.output) - 1)
    /\ main.output[Len(main.output)] = "stop"

ConfiguredDefault ==
    IF svg.json.given /\ svg.json.has_default
    THEN [order |-> svg.json.default.order, color |-> "default",
          feed |-> svg.json.default.feed, speed |-> svg.json.default.speed,
          passes |-> svg.json.default.passes, name |-> "default"]
    ELSE [order |-> 1, color |-> "default", feed |-> 1, speed |-> 1, passes |-> 0,
          name |-> "default"]

\* the colours of the parameter file
TableColors ==
    IF svg.json.given THEN {svg.json.params[i].color : i \in 1 .. Len(svg.json.params)}
    ELSE {}

\* the paths are in the order of their parameters' orders
InOrder ==
    \A i \in 1 .. Len(svg.paths) - 1 : svg.paths[i].param.order <= svg.paths[i + 1].param.order

\* the lines of the path are those of the default's passes, with its feed
DrawnWithDefault(d) ==
    /\ d.lines = ConfiguredDefault.passes * Len(SvgPath)
    /\ \A i \in d.first .. d.first + d.lines - 1 :
           svg.output[i].op = "draw" => svg.output[i].extra = <<ConfiguredDefault.feed>>

\* C20: a stroke colour that is not in the parameter table is reported and
\* gets the configured default, the built-in one if none is configured; its
\* path is drawn with the default's feed, passes and order, and the run
\* goes on to the trailer.
C20_UnknownColorGetsDefault ==
    /\ \A i \in 1 .. Len(svg.paths) :
           svg.paths[i].stroke \notin TableColors =>
               /\ svg.paths[i].param = ConfiguredDefault
               /\ \E j \in 1 .. Len(svg.printed) : svg.printed[j] = svg.paths[i].stroke
    /\ svg.pc \in {"paths", "done"} => InOrder
    /\ \A k \in 1 .. Len(svg.done) :
           svg.done[k].path.stroke \notin TableColors => DrawnWithDefault(svg.done[k])
    /\ svg.pc = "done" =>
           /\ Len(svg.done) = Len(svg.paths)
           /\ svg.output[Len(svg.output)].op = "stop"

\* C20 witness: with a configured default, a path of an unknown colour was
\* drawn in its passes before a path of the table, and the run ended
C20_Witness ==
    /\ svg.pc = "done"
    /\ svg.json.has_default
    /\ Len(svg.done) = 2
    /\ svg.done[1].path.stroke = "green"
    /\ svg.done[1].lines = 2 * Len(SvgPath)
    /\ svg.done[2].path.stroke = "blue"

(***************************************************************************)
(* Claims about the chain of Draw stages                                   *)
(***************************************************************************)
\* Glyph.path is at the top of its loop
Decoding == pipe.pc = "ready" /\ pipe.interp.on

\* the index of the stage of that kind in the chain, 0 if it has none
StageOf(kind) ==
    IF \E i \in 1 .. Len(pipe.stages) : pipe.stages[i].kind = kind
    THEN CHOOSE i \in 1 .. Len(pipe.stages) : pipe.stages[i].kind = kind
    ELSE 0

\* C21: whenever Glyph.path is about to decode an opcode, its own position
\* (x1, y1) is the cursor (last_x, last_y) of the Draw it calls, for every
\* glyph of a string; and the start point it used to convert a "2" is the
\* point from which the LineDraw downstream starts the resulting curve.
C21_InterpreterAgreesWithSink ==
    /\ Decoding =>
           /\ pipe.stages[1].has_last
           /\ Cursor(pipe.stages[1]) = Point(pipe.interp.x1, pipe.interp.y1)
    /\ (Decoding /\ pipe.interp.ops > 0 /\ pipe.call.op = "curve"
            /\ pipe.made.path = "text_path" /\ StageOf("line") = 3) =>
           /\ pipe.before[3].has_last
           /\ Cursor(pipe.before[3])
                  = point(pipe.stages[2].obj.matrix,
                          Point(pipe.p0.x + pipe.before[1].obj.offset_x,
                                pipe.p0.y + pipe.before[1].obj.offset_y))

\* what the code does keep: once an opcode of the glyph has made its call,
\* the position of Glyph.path is the cursor of the Draw it calls
AgreesAfterFirstOpcode ==
    (Decoding /\ pipe.interp.ops > 0) =>
        /\ pipe.stages[1].has_last
        /\ Cursor(pipe.stages[1]) = Point(pipe.interp.x1, pipe.interp.y1)

\* the second glyph of a string is entered with the OffsetDraw's cursor
\* still at the end of the first
SecondGlyphEntered ==
    /\ Decoding
    /\ pipe.interp.g = 2
    /\ pipe.interp.ops = 0
    /\ pipe.stages[1].has_last
    /\ Cursor(pipe.stages[1]) # Point(0, 0)

\* an opcode of that kind has just been decoded and its call has returned
Decoded(op) ==
    /\ Decoding
    /\ pipe.interp.ops > 0
    /\ at(pipe.interp.instr, 0) = op

\* C22 as stated: for "c" the first operand pair of the stream is the
\* curve's end point, which Draw.curve receives last, and the position of
\* Glyph.path after the opcode is that pair.
C22_CubicEndPointFirst ==
    Decoded("c") =>
        /\ EndPoint(pipe.call) = Point(at(pipe.interp.instr, 1), at(pipe.interp.instr, 2))
        /\ Point(pipe.interp.x1, pipe.interp.y1)
               = Point(at(pipe.interp.instr, 1), at(pipe.interp.instr, 2))

\* C22: for "c" Glyph.path hands the six operands to Draw.curve in the
\* order of the stream, so that the last pair is the curve's end point, and
\* its position after the opcode is that last pair.
C22_CubicOperandsInStreamOrder ==
    Decoded("c") =>
        /\ pipe.call = CurveCall(at(pipe.interp.instr, 1), at(pipe.interp.instr, 2),
                                 at(pipe.interp.instr, 3), at(pipe.interp.instr, 4),
                                 at(pipe.interp.instr, 5), at(pipe.interp.instr, 6))
        /\ pipe.trace[1] = <<pipe.call>>
        /\ Point(pipe.interp.x1, pipe.interp.y1)
               = Point(at(pipe.interp.instr, 5), at(pipe.interp.instr, 6))
        /\ Cursor(pipe.stages[1]) = Point(at(pipe.interp.instr, 5), at(pipe.interp.instr, 6))

\* C22 witness: a "c" whose first and last pairs differ was decoded after a
\* move, and its call went down the chain of text_path to the GCode
C22_Witness ==
    /\ Decoded("c")
    /\ pipe.interp.ops = 2
    /\ pipe.made.path = "text_path"
    /\ Point(at(pipe.interp.instr, 1), at(pipe.interp.instr, 2))
           # Point(at(pipe.interp.instr, 5), at(pipe.interp.instr, 6))
    /\ Len(pipe.trace[Len(pipe.trace)]) > 0

\* c is the cubic curve(C1, C2, P1) of the quadratic from P0 with the
\* control point Q: C1 = P0 + 2/3 (Q - P0) and C2 = P1 + 2/3 (Q - P1)
IsCubicOf(c, P0, Q, P1) ==
    /\ c.op = "curve"
    /\ 3 * c.a[1] = P0.x + 2 * Q.x
    /\ 3 * c.a[2] = P0.y + 2 * Q.y
    /\ 3 * c.a[3] = P1.x + 2 * Q.x
    /\ 3 * c.a[4] = P1.y + 2 * Q.y
    /\ EndPoint(c) = P1

\* C23: a quadratic with the control point Q and the end P1 is emitted as
\* the cubic of IsCubicOf from the position before it: the "2" opcode takes
\* that position from Glyph.path's x1, y1, curve2 from the cursor of the
\* stage it is called on; afterwards the position is P1.
C23_QuadraticAsCubic ==
    /\ Decoded("2") =>
           /\ IsCubicOf(pipe.call, pipe.p0,
                        Point(at(pipe.interp.instr, 1), at(pipe.interp.instr, 2)),
                        Point(at(pipe.interp.instr, 3), at(pipe.interp.instr, 4)))
           /\ Point(pipe.interp.x1, pipe.interp.y1)
                  = Point(at(pipe.interp.instr, 3), at(pipe.interp.instr, 4))
    /\ (pipe.call.op = "curve2" /\ pipe.raised = "none") =>
           /\ pipe.before[1].has_last
           /\ Len(pipe.trace[1]) = 1
           /\ IsCubicOf(pipe.trace[1][1], Cursor(pipe.before[1]),
                        Point(pipe.call.a[1], pipe.call.a[2]),
                        Point(pipe.call.a[3], pipe.call.a[4]))
           /\ Cursor(pipe.stages[1]) = Point(pipe.call.a[3], pipe.call.a[4])

\* C23 witness: curve2 was called on the MatrixDraw of path_to_gcode with
\* its cursor away from the origin, and returned
C23_Witness ==
    /\ pipe.call.op = "curve2"
    /\ pipe.raised = "none"
    /\ pipe.made.path = "path_to_gcode"
    /\ pipe.before[1].has_last
    /\ Cursor(pipe.before[1]) = Point(U, 0)
    /\ Len(pipe.trace[Len(pipe.trace)]) > 0

\* a move, draw or curve (or a curve2, through the curve it makes) was
\* called on the first stage and has returned
Returned == pipe.n > 0 /\ pipe.raised = "none"

\* C24: after a move, draw or curve on a stage, the stage's own (last_x,
\* last_y) is the end point of that call as the stage was given it: for
\* every stage of the chain that the call on the first stage reached, the
\* LineDraw given a curve and the MeasureDraw included.
C24_CursorIsEndPoint ==
    Returned =>
        \A i \in 1 .. Len(pipe.stages) :
            Len(pipe.trace[i]) > 0 =>
                /\ pipe.stages[i].has_last
                /\ Cursor(pipe.stages[i]) = EndPoint(pipe.trace[i][Len(pipe.trace[i])])

\* C24 witness: a curve given to the chain of text_path, shifted by a
\* step, transformed and flattened into several draws, with each of the
\* four stages at the end point in its own coordinates
C24_Witness ==
    /\ Returned
    /\ pipe.made.path = "text_path"
    /\ pipe.made.matrix # Identity
    /\ StageOf("line") = 3
    /\ pipe.call.op = "curve"
    /\ pipe.stages[1].obj.offset_x > 0
    /\ Len(pipe.trace[4]) > 1
    /\ Cursor(pipe.stages[1]) # Cursor(pipe.stages[2])
    /\ Cursor(pipe.stages[2]) # Cursor(pipe.stages[3])
    /\ Cursor(pipe.stages[3]) = Cursor(pipe.stages[4])

\* the finest parameter step that decompose can reach: 1 / Steps
Steps == 2 ^ RecursionLimit

\* p is the point of the cubic s at the parameter k / Steps
OnCurveAt(s, k, p) ==
    LET j == Steps - k
    IN  /\ p.x * Steps * Steps * Steps
               = s.a.x * j * j * j + 3 * s.b.x * j * j * k + 3 * s.c.x * j * k * k
                     + s.d.x * k * k * k
        /\ p.y * Steps * Steps * Steps
               = s.a.y * j * j * j + 3 * s.b.y * j * j * k + 3 * s.c.y * j * k * k
                     + s.d.y * k * k * k

RECURSIVE InParameterOrder(_, _, _, _)
\* the draws cs from the i-th on are points of s at parameters that grow,
\* all above k / Steps, the last of them at 1
InParameterOrder(s, cs, i, k) ==
    IF i > Len(cs) THEN k = Steps
    ELSE \E n \in k + 1 .. Steps :
             /\ OnCurveAt(s, n, EndPoint(cs[i]))
             /\ InParameterOrder(s, cs, i + 1, n)

\* the cubic that a curve call describes to a stage whose cursor is at p
SplineFrom(p, c) ==
    Spline(p, Point(c.a[1], c.a[2]), Point(c.a[3], c.a[4]), Point(c.a[5], c.a[6]))

\* C25: LineDraw hands every move and every draw to its chain as it is,
\* never calls chain.curve, and in place of a curve makes one or more
\* chain.draw calls to points of the curve in the order of its parameter,
\* from past the start point to the end point (x3, y3) exactly.
C25_LineDrawFlattensOnlyCurves ==
    (Returned /\ StageOf("line") > 0) =>
        LET L    == StageOf("line")
            got  == pipe.trace[L]
            sent == pipe.trace[L + 1]
        IN  /\ Len(got) = 1
            /\ got[1].op \in {"move", "draw"} => sent = got
            /\ got[1].op = "curve" =>
                   /\ Len(sent) >= 1
                   /\ \A j \in 1 .. Len(sent) : sent[j].op = "draw"
                   /\ EndPoint(sent[Len(sent)]) = EndPoint(got[1])
                   /\ pipe.before[L].has_last
                   /\ InParameterOrder(SplineFrom(Cursor(pipe.before[L]), got[1]), sent, 1, 0)

\* C25 witness: a LineDraw replaced a curve by several draws
C25_Witness ==
    /\ Returned
    /\ StageOf("line") > 0
    /\ pipe.trace[StageOf("line")][1].op = "curve"
    /\ Len(pipe.trace[StageOf("line") + 1]) > 2

\* the chain is one of the two that render: text_path or path_to_gcode
Rendering == pipe.pc # "new" /\ pipe.made.path \in {"text_path", "path_to_gcode"}

\* the device has no curve template, or values.tesselate is set
Flattening == pipe.made.gcode.device.curve = "" \/ pipe.made.gcode.values.tesselate

\* C26: in text_path and in path_to_gcode the MatrixDraw calls the
\* LineDraw, which calls the GCode, whenever the device has no curve
\* template or tesselate is set; the LineDraw's cursor is the transform of
\* the MatrixDraw's, and the draws the GCode receives for a curve are
\* Spline(M.point(start), M.point(c1), M.point(c2), M.point(end))
\* .decompose(flatness), start being the MatrixDraw's cursor: flatness is
\* applied to transformed coordinates.
C26_FlattenedAfterTransform ==
    (Rendering /\ Flattening) =>
        LET M    == StageOf("matrix")
            m    == pipe.made.matrix
            got  == pipe.trace[M]
        IN  /\ M > 0
            /\ Len(pipe.stages) = M + 2
            /\ pipe.stages[M + 1].kind = "line"
            /\ pipe.stages[M + 2].kind = "gcode"
            /\ pipe.stages[M].has_last = pipe.stages[M + 1].has_last
            /\ pipe.stages[M].has_last =>
                   Cursor(pipe.stages[M + 1]) = point(m, Cursor(pipe.stages[M]))
            /\ (Returned /\ Len(got) > 0 /\ got[1].op = "curve") =>
                   /\ pipe.before[M].has_last
                   /\ pipe.trace[M + 2]
                          = LineDraw_draws(
                                decompose(Spline(point(m, Cursor(pipe.before[M])),
                                                 point(m, Point(got[1].a[1], got[1].a[2])),
                                                 point(m, Point(got[1].a[3], got[1].a[4])),
                                                 point(m, Point(got[1].a[5], got[1].a[6]))),
                                          pipe.made.gcode.values.flatness, 0).ret)

\* C26 witness: path_to_gcode for a device that has a curve template, with
\* tesselate set: a curve was transformed by a matrix that scales and
\* inverts, then flattened into several draws
C26_Witness ==
    /\ Rendering
    /\ Returned
    /\ pipe.made.path = "path_to_gcode"
    /\ pipe.made.gcode.device.curve # ""
    /\ pipe.made.gcode.values.tesselate
    /\ pipe.made.matrix # Identity
    /\ pipe.trace[1][1].op = "curve"
    /\ Len(pipe.trace[3]) > 1

\* the stages are constructed and no call has been made on them
Fresh == pipe.pc = "ready" /\ pipe.n = 0 /\ pipe.interp.g = 0

\* the first call on the constructed stages was a curve or a curve2
FirstWasCurve ==
    /\ pipe.pc # "new"
    /\ pipe.n = 1
    /\ pipe.interp.g = 0
    /\ pipe.call.op \in {"curve", "curve2"}

\* C30: every Draw stage has the cursor (0, 0) from its construction, and
\* a curve or curve2 that is the first call on freshly constructed stages
\* returns, having read no unset last_x or last_y, with (0, 0) as the start
\* of the curve.
C30_FreshCursorAtOrigin ==
    /\ Fresh =>
           \A i \in 1 .. Len(pipe.stages) :
               pipe.stages[i].has_last /\ Cursor(pipe.stages[i]) = Point(0, 0)
    /\ FirstWasCurve => pipe.raised = "none"

\* what the code does: the stages that have a cursor from construction are
\* those of Draw and MeasureDraw, whose __init__ assign last_x and last_y;
\* OffsetDraw, MatrixDraw, LineDraw and GCode have none until the first
\* call returns; a first curve raises AttributeError when it reaches a
\* LineDraw, and a first curve2 on any of them
FreshCursorOnlyOfDrawAndMeasureDraw ==
    /\ Fresh =>
           \A i \in 1 .. Len(pipe.stages) :
               pipe.stages[i].has_last = (pipe.stages[i].kind \in {"draw", "measure"})
    /\ FirstWasCurve =>
           (pipe.raised = "AttributeError")
               = \/ pipe.call.op = "curve2" /\ pipe.before[1].kind \notin {"draw", "measure"}
                 \/ /\ pipe.call.op = "curve"
                    /\ \E i \in 1 .. Len(pipe.before) : pipe.before[i].kind = "line"

(***************************************************************************)
(* Claims about Spline.error_squared under subdivision                     *)
(***************************************************************************)
\* the frames of the recursion whose spline de_casteljau halves exactly
Halvable == {i \in 1 .. Len(stack) : stack[i].depth < RecursionLimit}

\* C27: for the two halves (s1, s2) that de_casteljau returns for a spline
\* S, error_squared(s1) <= error_squared(S) and error_squared(s2) <=
\* error_squared(S).  S is every spline that the recursion of decompose
\* holds: the spline decompose was called on and the halves of the halves.
C27_HalvesNoWorse ==
    \A i \in Halvable :
        LET S      == stack[i].s
            halves == de_casteljau(S)
        IN  /\ error_squared(halves[1]) <= error_squared(S)
            /\ error_squared(halves[2]) <= error_squared(S)

\* C27 witness: decompose has split a spline and holds a half that is not
\* flat, whose own halves have a smaller error than it has
C27_Witness ==
    /\ pc = "run"
    /\ \E i \in Halvable :
           LET S      == stack[i].s
               halves == de_casteljau(S)
           IN  /\ stack[i].depth > 0
               /\ error_squared(S) > 0
               /\ error_squared(halves[1]) < error_squared(S)
               /\ error_squared(halves[2]) < error_squared(S)

\* the cross product of q - p and r - p
Cross(p, q, r) == (q.x - p.x) * (r.y - p.y) - (q.y - p.y) * (r.x - p.x)

\* the four control points of s lie on one line
Collinear(s) ==
    /\ Cross(s.a, s.b, s.d) = 0
    /\ Cross(s.a, s.c, s.d) = 0
    /\ Cross(s.a, s.b, s.c) = 0
    /\ Cross(s.b, s.c, s.d) = 0

\* C28: decompose of a spline whose control points are collinear, whatever
\* their spacing, returns exactly (d,), for every tolerance: it does not
\* split, and it returns.
C28_CollinearIsOnePoint ==
    (Collinear(spline) /\ pc # "idle") =>
        /\ pc # "RecursionError"
        /\ \A i \in 1 .. Len(stack) : stack[i].depth = 0
        /\ pc = "done" => ret = <<spline.d>>

\* what the code does for collinear control points: the result is (d,)
\* when error_squared is within 16 * tolerance^2, which is so at every
\* tolerance only when the error is 0
CollinearIsOnePointWhenFlatEnough ==
    (Collinear(spline) /\ pc = "done") =>
        (ret = <<spline.d>>) = flat_enough(spline, tolerance)

(***************************************************************************)
(* Claims about the main loop of gcode-text                                *)
(***************************************************************************)
\* the loop has been left: by StopIteration, or by an exception
LoopLeft == loop.pc \in {"done", "raised"}

\* C29: the main loop terminates for every configuration: once it is
\* entered it is eventually left, because one of the two generators is
\* exhausted.
C29_MainLoopTerminates == [](loop.pc = "rect" => <>LoopLeft)

\* the configurations for which neither generator ends: the grid of rects
\* (no "rects" from the template) with start_x and start_y set, and either
\* no column to yield a rect for, or values generated under a template
RunsOn(values) ==
    /\ ~values.has_rects
    /\ values.start
    /\ \/ values.columns <= 0
       \/ values.has_value /\ finite_rects(values)

\* what the code does: the loop is left for every other configuration
MainLoopTerminatesUnlessRunsOn ==
    [](loop.pc = "rect" /\ ~RunsOn(loop.values) => <>LoopLeft)

\* and for these it is never left
MainLoopRunsOn == (loop.pc # "new" /\ RunsOn(loop.values)) => ~LoopLeft

====
